---- MODULE Spec2Model ----
(***************************************************************************)
(* A model of the SYL pipeline of Racaem/Sylph0.2:                         *)
(*   tokens -> parser::parse -> semantic::analyze ->                       *)
(*   bytecode::compile_to_bytecode -> bytecode::execute_bytecode           *)
(* The pure passes (parser, analyzer, compiler) are operators computed as  *)
(* the Rust code computes them; the virtual machine is a state machine     *)
(* that executes one bytecode instruction per step over an explicit stack  *)
(* of activations (one entry per live Rust call of                         *)
(* BytecodeInterpreter::execute / execute_function).                       *)
(*                                                                         *)
(* Conventions.                                                            *)
(*  - Positions (parser pos, pc, jump targets) are 0-based as in the Rust  *)
(*    code; a sequence s is read at position p as s[p + 1].                *)
(*  - A text (an output line, an error message) is a sequence of strings   *)
(*    whose concatenation is the Rust String; numbers appear in it as      *)
(*    their decimal digits, one character per element.                     *)
(*  - A u64 is represented by the integer with the same 64-bit pattern     *)
(*    read as a signed value: u64 values above i64::MAX are negative here. *)
(*  - The driver's special case for a function named "fibonacci"           *)
(*    (executor.rs 43-57) is outside the model: no modelled program uses   *)
(*    that name.                                                           *)
(***************************************************************************)
EXTENDS Integers, Sequences, FiniteSets, TLC

(***************************************************************************)
(* Small helpers                                                           *)
(***************************************************************************)
Last(s) == s[Len(s)]
Front(s) == SubSeq(s, 1, Len(s) - 1)
Abs(n) == IF n < 0 THEN 0 - n ELSE n

(***************************************************************************)
(* Exact integers.  The payloads of i64, i128 and num_bigint::BigInt do    *)
(* not fit the 32-bit integers of TLC, so every integer payload is kept as *)
(* a sign and a magnitude: the decimal digits, most significant first,     *)
(* without a leading zero; zero is <<0>> and is not negative.              *)
(***************************************************************************)
RECURSIVE IntMag(_)
IntMag(n) == IF n < 10 THEN <<n>> ELSE Append(IntMag(n \div 10), n % 10)

Norm(neg, mag) == [neg |-> neg /\ mag # <<0>>, mag |-> mag]

\* the exact integer of a small number
Big(n) == Norm(n < 0, IntMag(Abs(n)))

RECURSIVE Strip(_)
Strip(m) ==
    IF Len(m) = 0 THEN <<0>>
    ELSE IF Len(m) > 1 /\ m[1] = 0 THEN Strip(Tail(m))
    ELSE m

\* the digit of weight 10^i
DigitAt(m, i) == IF i < Len(m) THEN m[Len(m) - i] ELSE 0

RECURSIVE LexLess(_, _, _)
LexLess(a, b, i) ==
    IF i > Len(a) THEN FALSE
    ELSE IF a[i] # b[i] THEN a[i] < b[i]
    ELSE LexLess(a, b, i + 1)

MagLess(a, b) == IF Len(a) # Len(b) THEN Len(a) < Len(b) ELSE LexLess(a, b, 1)

\* the digits of a number written in the given base, and single-digit
\* addition with carry from the digit of weight base^i on
RECURSIVE AddFrom(_, _, _, _, _)
AddFrom(base, a, b, i, carry) ==
    IF i >= Len(a) /\ i >= Len(b) THEN (IF carry = 0 THEN <<>> ELSE <<carry>>)
    ELSE Append(AddFrom(base, a, b, i + 1, (DigitAt(a, i) + DigitAt(b, i) + carry) \div base),
                (DigitAt(a, i) + DigitAt(b, i) + carry) % base)

MagAdd(a, b) == Strip(AddFrom(10, a, b, 0, 0))

\* a - b for a >= b
RECURSIVE SubFrom(_, _, _, _)
SubFrom(a, b, i, borrow) ==
    IF i >= Len(a) THEN <<>>
    ELSE IF DigitAt(a, i) - DigitAt(b, i) - borrow < 0
    THEN Append(SubFrom(a, b, i + 1, 1), DigitAt(a, i) - DigitAt(b, i) - borrow + 10)
    ELSE Append(SubFrom(a, b, i + 1, 0), DigitAt(a, i) - DigitAt(b, i) - borrow)

MagSub(a, b) == Strip(SubFrom(a, b, 0, 0))

\* multiplication works on groups of four decimal digits (base 10000), which
\* keeps the recursion short: the groups of a magnitude and back
Groups(m) ==
    [g \in 1..((Len(m) + 3) \div 4) |->
        DigitAt(m, 4 * (((Len(m) + 3) \div 4) - g))
        + 10 * DigitAt(m, 4 * (((Len(m) + 3) \div 4) - g) + 1)
        + 100 * DigitAt(m, 4 * (((Len(m) + 3) \div 4) - g) + 2)
        + 1000 * DigitAt(m, 4 * (((Len(m) + 3) \div 4) - g) + 3)]

Ungroup(gs) ==
    Strip([i \in 1..(4 * Len(gs)) |->
              (gs[((i - 1) \div 4) + 1] \div <<1000, 100, 10, 1>>[((i - 1) % 4) + 1]) % 10])

\* a times the single digit d
RECURSIVE MulFrom(_, _, _, _, _)
MulFrom(base, a, d, i, carry) ==
    IF i >= Len(a) THEN (IF carry = 0 THEN <<>> ELSE <<carry>>)
    ELSE Append(MulFrom(base, a, d, i + 1, (DigitAt(a, i) * d + carry) \div base),
                (DigitAt(a, i) * d + carry) % base)

\* the digits of b taken one by one, most significant first: acc is a times
\* the number of the digits before the k-th
RECURSIVE MulTo(_, _, _, _, _)
MulTo(base, a, b, k, acc) ==
    IF k > Len(b) THEN acc
    ELSE MulTo(base, a, b, k + 1,
               AddFrom(base, Append(acc, 0), MulFrom(base, a, b[k], 0, 0), 0, 0))

MagMul(a, b) == Ungroup(MulTo(10000, Groups(a), Groups(b), 1, <<>>))

\* long division: how often b (not zero) goes into cur, and what is left
RECURSIVE TimesIn(_, _)
TimesIn(cur, b) == IF MagLess(cur, b) THEN 0 ELSE 1 + TimesIn(MagSub(cur, b), b)

RECURSIVE LeftOver(_, _)
LeftOver(cur, b) == IF MagLess(cur, b) THEN cur ELSE LeftOver(MagSub(cur, b), b)

RECURSIVE DivLoop(_, _, _, _, _)
RECURSIVE DivNext(_, _, _, _, _)
DivNext(a, b, k, q, cur) == DivLoop(a, b, k + 1, Append(q, TimesIn(cur, b)), LeftOver(cur, b))

DivLoop(a, b, k, q, r) ==
    IF k > Len(a) THEN [q |-> Strip(q), r |-> r]
    ELSE DivNext(a, b, k, q, Strip(Append(r, a[k])))

MagDivMod(a, b) == DivLoop(a, b, 1, <<>>, <<0>>)

\* the signed operations; division truncates toward zero and the remainder
\* has the sign of the dividend, as in Rust and in num_bigint
BigNeg(x) == Norm(~x.neg, x.mag)

BigAdd(x, y) ==
    IF x.neg = y.neg THEN Norm(x.neg, MagAdd(x.mag, y.mag))
    ELSE IF MagLess(x.mag, y.mag) THEN Norm(y.neg, MagSub(y.mag, x.mag))
    ELSE Norm(x.neg, MagSub(x.mag, y.mag))

BigSub(x, y) == BigAdd(x, BigNeg(y))
BigMul(x, y) == Norm(x.neg # y.neg, MagMul(x.mag, y.mag))
BigDiv(x, y) == Norm(x.neg # y.neg, MagDivMod(x.mag, y.mag).q)
BigRem(x, y) == Norm(x.neg, MagDivMod(x.mag, y.mag).r)

BigLess(x, y) ==
    IF x.neg # y.neg THEN x.neg
    ELSE IF x.neg THEN MagLess(y.mag, x.mag)
    ELSE MagLess(x.mag, y.mag)

BigLeq(x, y) == ~BigLess(y, x)

(***************************************************************************)
(* types.rs : IntegerType, IntegerValue                                    *)
(***************************************************************************)
\* IntegerType with its declaration order (also promote_type's type_order)
IntegerType == <<"I8", "I16", "I32", "I64", "I128", "BigInt">>

TypeIdx(t) == CHOOSE i \in 1..Len(IntegerType) : IntegerType[i] = t

\* i8::MAX, i16::MAX, i32::MAX, and the digits of i64::MAX and i128::MAX
I8Max == 127
I16Max == 32767
I32Max == 2147483647
I64MaxDigits == <<9, 2, 2, 3, 3, 7, 2, 0, 3, 6, 8, 5, 4, 7, 7, 5, 8, 0, 7>>
I128MaxDigits ==
    <<1, 7, 0, 1, 4, 1, 1, 8, 3, 4, 6, 0, 4, 6, 9, 2, 3, 1, 7, 3, 1, 6, 8, 7, 3, 0, 3, 7, 1, 5, 8, 8, 4, 1, 0, 5, 7, 2, 7>>

MaxOf(t) ==
    CASE t = "I8" -> IntMag(I8Max)
      [] t = "I16" -> IntMag(I16Max)
      [] t = "I32" -> IntMag(I32Max)
      [] t = "I64" -> I64MaxDigits
      [] OTHER -> I128MaxDigits

\* the values a width can hold: MIN = -(MAX + 1) .. MAX; BigInt holds all
InRange(t, n) ==
    \/ t = "BigInt"
    \/ IF n.neg THEN ~MagLess(MagAdd(MaxOf(t), <<1>>), n.mag)
       ELSE ~MagLess(MaxOf(t), n.mag)

\* the name the error messages use for a width
TypeName(t) ==
    CASE t = "I8" -> "i8"
      [] t = "I16" -> "i16"
      [] t = "I32" -> "i32"
      [] t = "I64" -> "i64"
      [] t = "I128" -> "i128"
      [] OTHER -> "bigint"

\* an IntegerValue: width tag and payload (IV takes a small number)
IVal(t, big) == [t |-> t, v |-> big]
IV(t, n) == IVal(t, Big(n))

\* Result<_, String>, and a panic of the operation
NoText == <<>>
Ok(x) == [ok |-> TRUE, val |-> x, err |-> NoText, panic |-> FALSE]
Err(msg) == [ok |-> FALSE, val |-> IV("I64", 0), err |-> msg, panic |-> FALSE]
Panic(msg) == [ok |-> FALSE, val |-> IV("I64", 0), err |-> msg, panic |-> TRUE]

\* Display of an integer: '-' and the decimal digits
DigitChar == <<"0", "1", "2", "3", "4", "5", "6", "7", "8", "9">>

RECURSIVE Digits(_)
Digits(n) == IF n < 10 THEN <<DigitChar[n + 1]>>
             ELSE Digits(n \div 10) \o <<DigitChar[(n % 10) + 1]>>

Decimal(n) == IF n < 0 THEN <<"-">> \o Digits(0 - n) ELSE Digits(n)

BigText(n) ==
    (IF n.neg THEN <<"-">> ELSE <<>>) \o [i \in 1..Len(n.mag) |-> DigitChar[n.mag[i] + 1]]

\* impl Display for IntegerValue / Value
to_string(val) == BigText(val.v)

\* IntegerValue::get_type
get_type(a) == a.t

\* (a variant that takes the width of the left operand)
promote_type_left(a, b) == get_type(a)

\* IntegerValue::promote_type: the later of the two widths in type_order
promote_type(a, b) ==
    IF TypeIdx(get_type(a)) > TypeIdx(get_type(b)) THEN get_type(a) ELSE get_type(b)

\* (a variant whose down-casts test the upper end of the width only)
cast_to_below_max(a, target) ==
    IF a.v.neg \/ InRange(target, a.v) THEN Ok(IVal(target, a.v))
    ELSE Err(<<"Value ">> \o BigText(a.v) \o <<" out of range for ", TypeName(target)>>)

\* IntegerValue::cast_to (to_i8 .. to_i128, to_bigint)
cast_to(a, target) ==
    IF InRange(target, a.v) THEN Ok(IVal(target, a.v))
    ELSE Err(<<"Value ">> \o BigText(a.v) \o <<" out of range for ", TypeName(target)>>)

\* IntegerValue::to_i64, to_i128
to_i64(a) == cast_to(a, "I64")
to_i128(a) == cast_to(a, "I128")

\* checked_add / checked_sub / checked_mul / checked_div of the fixed
\* widths: None when the exact result is outside the width; BigInt never
\* overflows
CheckedFits(t, n) == t = "BigInt" \/ InRange(t, n)

\* "let target_type = promote_type(&self, &rhs); let a = self.cast_to(..)?;
\* let b = rhs.cast_to(..)?" at the head of every operation
Operands(x, y, t) == [t |-> t, a |-> cast_to(x, t), b |-> cast_to(y, t)]
Promoted(x, y) == Operands(x, y, promote_type(x, y))

\* the text of an overflow error
Overflow(what, t, a, sym, b) ==
    <<what, TypeName(t), ": ">> \o BigText(a) \o <<sym>> \o BigText(b)

\* (a variant that keeps the result whether it fits the width or not)
Unchecked(t, r, msg) == Ok(IVal(t, r))

\* ".map(IntegerValue::W).ok_or_else(|| format!(..))"
Checked(t, r, msg) == IF CheckedFits(t, r) THEN Ok(IVal(t, r)) ELSE Err(msg)

\* impl Add for IntegerValue
AddCast(c) ==
    IF ~c.a.ok THEN c.a
    ELSE IF ~c.b.ok THEN c.b
    ELSE Checked(c.t, BigAdd(c.a.val.v, c.b.val.v),
                 Overflow("Addition overflow for ", c.t, c.a.val.v, " + ", c.b.val.v))

IntAdd(x, y) == AddCast(Promoted(x, y))

\* impl Sub for IntegerValue
SubCast(c) ==
    IF ~c.a.ok THEN c.a
    ELSE IF ~c.b.ok THEN c.b
    ELSE Checked(c.t, BigSub(c.a.val.v, c.b.val.v),
                 Overflow("Subtraction overflow for ", c.t, c.a.val.v, " - ", c.b.val.v))

IntSub(x, y) == SubCast(Promoted(x, y))

\* (a variant that fails on overflow as the other operations do)
MulOutChecked(t, p) ==
    IF CheckedFits(t, p) THEN Ok(IVal(t, p)) ELSE Err(<<"Multiplication overflow">>)

\* impl Mul for IntegerValue: an overflowing fixed-width product escapes to
\* BigInt
MulOut(t, p) == IF CheckedFits(t, p) THEN Ok(IVal(t, p)) ELSE Ok(IVal("BigInt", p))

MulCast(c) ==
    IF ~c.a.ok THEN c.a
    ELSE IF ~c.b.ok THEN c.b
    ELSE MulOut(c.t, BigMul(c.a.val.v, c.b.val.v))

IntMul(x, y) == MulCast(Promoted(x, y))

\* (a variant with the message of the remainder for a zero divisor)
DivCastModuloText(c) ==
    IF ~c.a.ok THEN c.a
    ELSE IF ~c.b.ok THEN c.b
    ELSE IF c.b.val.v.mag = <<0>> THEN Err(<<"Modulo by zero">>)
    ELSE Checked(c.t, BigDiv(c.a.val.v, c.b.val.v),
                 Overflow("Division overflow for ", c.t, c.a.val.v, " / ", c.b.val.v))

\* impl Div for IntegerValue: checked_div is None for MIN / -1
DivCast(c) ==
    IF ~c.a.ok THEN c.a
    ELSE IF ~c.b.ok THEN c.b
    ELSE IF c.b.val.v.mag = <<0>> THEN Err(<<"Division by zero">>)
    ELSE Checked(c.t, BigDiv(c.a.val.v, c.b.val.v),
                 Overflow("Division overflow for ", c.t, c.a.val.v, " / ", c.b.val.v))

IntDiv(x, y) == DivCast(Promoted(x, y))

\* the primitive "a % b" panics when a / b overflows (MIN % -1), in every
\* build; BigInt has no such case
RemOverflows(t, a, b) == t # "BigInt" /\ ~InRange(t, BigDiv(a, b))

\* impl Rem for IntegerValue
RemCast(c) ==
    IF ~c.a.ok THEN c.a
    ELSE IF ~c.b.ok THEN c.b
    ELSE IF c.b.val.v.mag = <<0>> THEN Err(<<"Modulo by zero">>)
    ELSE IF RemOverflows(c.t, c.a.val.v, c.b.val.v)
    THEN Panic(<<"attempt to calculate the remainder with overflow">>)
    ELSE Ok(IVal(c.t, BigRem(c.a.val.v, c.b.val.v)))

IntRem(x, y) == RemCast(Promoted(x, y))

\* impl Ord for IntegerValue: two values of one variant compare by payload;
\* two of different variants are both converted by to_i128, and the
\* comparison panics when either conversion fails
CmpPanics(a, b) == a.t # b.t /\ (~to_i128(a).ok \/ ~to_i128(b).ok)

\* Ord::cmp: the Ordering, or the panic
IntCmp(a, b) ==
    IF CmpPanics(a, b) THEN "panic"
    ELSE IF BigLess(a.v, b.v) THEN "Less"
    ELSE IF a.v = b.v THEN "Equal"
    ELSE "Greater"

\* the order of the payloads, for a comparison that does not panic
IntLe(a, b) == BigLeq(a.v, b.v)
IntLt(a, b) == BigLess(a.v, b.v)
IntGt(a, b) == BigLess(b.v, a.v)
IntGe(a, b) == BigLeq(b.v, a.v)

\* derived PartialEq of IntegerValue: same variant and same payload
IntEq(a, b) == a.t = b.t /\ a.v = b.v

(***************************************************************************)
(* lexer.rs : Token        ast.rs : Expr, BinOpType, Stmt, Program         *)
(***************************************************************************)
\* a Token: its variant, and the payload of Ident / Number / TypedNumber*
Tok(k) == [k |-> k, name |-> "", v |-> IV("I8", 0)]
TIdent(name) == [k |-> "Ident", name |-> name, v |-> IV("I8", 0)]

\* the callback of the plain [0-9]+ literal: the smallest width that holds
\* it, BigInt above i128::MAX
LiteralOf(b) ==
    IF InRange("I8", b) THEN IVal("I8", b)
    ELSE IF InRange("I16", b) THEN IVal("I16", b)
    ELSE IF InRange("I32", b) THEN IVal("I32", b)
    ELSE IF InRange("I64", b) THEN IVal("I64", b)
    ELSE IF InRange("I128", b) THEN IVal("I128", b)
    ELSE IVal("BigInt", b)

NumberLiteral(n) == LiteralOf(Big(n))

TNumber(n) == [k |-> "Number", name |-> "", v |-> NumberLiteral(n)]

\* the token variant of a width-suffixed literal
TypedKind(t) ==
    CASE t = "I8" -> "TypedNumber"
      [] t = "I16" -> "TypedNumber16"
      [] t = "I32" -> "TypedNumber32"
      [] t = "I64" -> "TypedNumber64"
      [] t = "I128" -> "TypedNumber128"
      [] OTHER -> "TypedNumberBigInt"

TTyped(n, t) == [k |-> TypedKind(t), name |-> "", v |-> IV(t, n)]

TypedKinds == {TypedKind(IntegerType[i]) : i \in 1..Len(IntegerType)}

\* Expr
Number(v) == [e |-> "Number", v |-> v]
TypedNumber(v) == [e |-> "TypedNumber", v |-> v]
Ident(name) == [e |-> "Ident", name |-> name]
BinOp(l, op, r) == [e |-> "BinOp", l |-> l, op |-> op, r |-> r]
Call(name, args) == [e |-> "Call", name |-> name, args |-> args]

\* BinOpType
BinOpType == {"Plus", "Minus", "Mul", "Mod", "Le", "Lt", "Gt", "Ge", "Eq"}

\* Stmt
Assign(name, expr) == [s |-> "Assign", name |-> name, expr |-> expr]
If(cond, body) == [s |-> "If", cond |-> cond, body |-> body]
While(cond, body) == [s |-> "While", cond |-> cond, body |-> body]
Return(expr) == [s |-> "Return", expr |-> expr]
Out(expr) == [s |-> "Out", expr |-> expr]
FuncDef(name, params, body) ==
    [s |-> "FuncDef", name |-> name, params |-> params, body |-> body]

(***************************************************************************)
(* parser.rs : Parser                                                      *)
(***************************************************************************)
\* Parser::peek at an explicit position: the token, or the variant "None"
\* past the end of the input
TokAt(toks, pos) == IF pos < Len(toks) THEN toks[pos + 1] ELSE Tok("None")

\* Parser::consume / consume_no_clone
Consume(toks, pos) == IF pos < Len(toks) THEN pos + 1 ELSE pos

\* results of the parse functions: the node (or the error), the position the
\* parser is left at, and the warnings printed on the way
POk(node, pos, warns) ==
    [ok |-> TRUE, node |-> node, pos |-> pos, err |-> NoText, warns |-> warns]
PErr(msg, pos, warns) ==
    [ok |-> FALSE, node |-> <<>>, pos |-> pos, err |-> msg, warns |-> warns]

\* Parser::scan_function_locations, the skip to the End that closes the
\* definition
RECURSIVE SkipToEnd(_, _)
SkipToEnd(toks, pos) ==
    IF pos >= Len(toks) THEN pos
    ELSE IF TokAt(toks, pos).k = "End" THEN pos + 1
    ELSE SkipToEnd(toks, pos + 1)

\* Parser::scan_function_locations: the names that follow a Def
\* one turn of the outer loop, at a Def followed by a name and elsewhere:
\* the position the next turn starts at
AfterScanTurn(toks, pos) ==
    IF TokAt(toks, pos).k = "Def" /\ TokAt(toks, pos + 1).k = "Ident"
    THEN SkipToEnd(toks, pos + 1)
    ELSE pos + 1

RECURSIVE ScanFrom(_, _, _)
ScanFrom(toks, pos, fs) ==
    IF pos >= Len(toks) THEN fs
    ELSE IF TokAt(toks, pos).k = "Def" /\ TokAt(toks, pos + 1).k = "Ident"
         THEN ScanFrom(toks, AfterScanTurn(toks, pos), fs \cup {TokAt(toks, pos + 1).name})
         ELSE ScanFrom(toks, AfterScanTurn(toks, pos), fs)

scan_function_locations(toks) == ScanFrom(toks, 0, {})

\* the (op_prec, op_type) table of parse_bin_op
IsBinOpToken(k) == k \in {"Mul", "Mod", "Plus", "Minus", "Lt", "Le", "Gt", "Ge", "Eq"}

OpPrec(k) ==
    CASE k \in {"Mul", "Mod"} -> 3
      [] k \in {"Plus", "Minus"} -> 2
      [] k \in {"Lt", "Le", "Gt", "Ge"} -> 1
      [] OTHER -> 0

\* the token variants and the BinOpType variants have the same names
OpType(k) == k

\* parse_bin_op's exit test "if op_prec <= precedence { break; }"
PrecStopsRightAssoc(op_prec, precedence) == op_prec < precedence

PrecStops(op_prec, precedence) == op_prec <= precedence

RECURSIVE parse_bin_op(_, _, _, _)
RECURSIVE BinOpLoop(_, _, _, _, _)
RECURSIVE BinOpRight(_, _, _, _, _, _)
RECURSIVE parse_primary(_, _, _)
RECURSIVE CallArgs(_, _, _, _, _)
RECURSIVE MoreArgs(_, _, _, _, _)
RECURSIVE ArgThen(_, _, _, _, _)

\* Parser::parse_expr
parse_expr(toks, fs, pos) == parse_bin_op(toks, fs, pos, 0)

\* "let mut left = self.parse_primary()?;" and the loop that follows
LeftThen(toks, fs, left, precedence) ==
    IF ~left.ok THEN left
    ELSE BinOpLoop(toks, fs, left.pos, left.node, precedence)

\* Parser::parse_bin_op
parse_bin_op(toks, fs, pos, precedence) ==
    LeftThen(toks, fs, parse_primary(toks, fs, pos), precedence)

\* "let right = self.parse_bin_op(op_prec)?; left = Expr::BinOp(..)" and the
\* next turn of the loop
BinOpRight(toks, fs, left, op, right, precedence) ==
    IF ~right.ok THEN right
    ELSE BinOpLoop(toks, fs, right.pos, BinOp(left, OpType(op), right.node), precedence)

\* the while loop of parse_bin_op
BinOpLoop(toks, fs, pos, left, precedence) ==
    IF ~IsBinOpToken(TokAt(toks, pos).k) THEN POk(left, pos, <<>>)
    ELSE IF PrecStops(OpPrec(TokAt(toks, pos).k), precedence) THEN POk(left, pos, <<>>)
    ELSE BinOpRight(toks, fs, left, TokAt(toks, pos).k,
                    parse_bin_op(toks, fs, pos + 1, OpPrec(TokAt(toks, pos).k)),
                    precedence)

\* "args.push(self.parse_expr()?)" and the comma loop that follows
ArgThen(toks, fs, arg, name, args) ==
    IF ~arg.ok THEN arg
    ELSE MoreArgs(toks, fs, arg.pos, name, Append(args, arg.node))

\* the "while let Some(Token::Comma)" loop that collects further arguments
MoreArgs(toks, fs, pos, name, args) ==
    IF TokAt(toks, pos).k = "Comma"
    THEN ArgThen(toks, fs, parse_expr(toks, fs, pos + 1), name, args)
    ELSE POk(Call(name, args), pos, <<>>)

\* a call with arguments: the first argument, then the comma loop
CallArgs(toks, fs, pos, name, args) ==
    ArgThen(toks, fs, parse_expr(toks, fs, pos), name, args)

\* the lookahead of parse_primary at an identifier: is it a call with
\* arguments?
IsCallHead(toks, fs, pos) ==
    /\ TokAt(toks, pos).name \in fs
    /\ \/ TokAt(toks, pos + 1).k \in {"Number", "Minus"}
       \/ /\ TokAt(toks, pos + 1).k = "Ident"
          /\ ~(pos + 2 < Len(toks) /\ TokAt(toks, pos + 2).k = "Assign")

\* Parser::parse_primary
parse_primary(toks, fs, pos) ==
    CASE TokAt(toks, pos).k = "Number" -> POk(Number(TokAt(toks, pos).v), pos + 1, <<>>)
      [] TokAt(toks, pos).k \in TypedKinds ->
            POk(TypedNumber(TokAt(toks, pos).v), pos + 1, <<>>)
      [] TokAt(toks, pos).k = "Ident" ->
            IF IsCallHead(toks, fs, pos)
            THEN CallArgs(toks, fs, pos + 1, TokAt(toks, pos).name, <<>>)
            ELSE POk(Ident(TokAt(toks, pos).name), pos + 1, <<>>)
      [] OTHER ->
            PErr(<<"Expected primary expression, got ", TokAt(toks, pos).k>>, pos, <<>>)

\* "let x = self.parse_...()?; Ok(AstNode::Out(x))" and its likes: the error
\* is passed on, the node is wrapped
OutOf(r) == IF ~r.ok THEN r ELSE POk(Out(r.node), r.pos, <<>>)
ReturnOf(r) == IF ~r.ok THEN r ELSE POk(Return(r.node), r.pos, <<>>)
AssignOf(name, r) == IF ~r.ok THEN r ELSE POk(Assign(name, r.node), r.pos, <<>>)

\* the desugaring of the compound assignments
CompoundOp(k) ==
    CASE k = "PlusAssign" -> "Plus"
      [] k = "MinusAssign" -> "Minus"
      [] k = "MulAssign" -> "Mul"
      [] OTHER -> "Mod"

CompoundOf(name, k, r) ==
    IF ~r.ok THEN r
    ELSE POk(Assign(name, BinOp(Ident(name), CompoundOp(k), r.node)), r.pos, <<>>)

\* the operator loop of parse_ident_stmt for an identifier that is not
\* called with arguments: only + - <= < are read, each with a primary operand
RECURSIVE IdentOpLoop(_, _, _, _)
RECURSIVE IdentOpRight(_, _, _, _, _)
IdentOpRight(toks, fs, left, op, right) ==
    IF ~right.ok THEN right
    ELSE IdentOpLoop(toks, fs, right.pos, BinOp(left, OpType(op), right.node))

IdentOpLoop(toks, fs, pos, left) ==
    IF TokAt(toks, pos).k \in {"Plus", "Minus", "Le", "Lt"}
    THEN IdentOpRight(toks, fs, left, TokAt(toks, pos).k, parse_primary(toks, fs, pos + 1))
    ELSE POk(Out(left), pos, <<>>)

\* the right-hand side of parse_ident_stmt's assignment forms
AssignForm(name, k, rhs) ==
    IF k = "Assign" THEN AssignOf(name, rhs) ELSE CompoundOf(name, k, rhs)

\* Parser::parse_ident_stmt
parse_ident_stmt(toks, fs, pos) ==
    IF TokAt(toks, pos).k # "Ident" THEN PErr(<<"Expected identifier">>, pos, <<>>)
    ELSE IF TokAt(toks, pos + 1).k
              \in {"Assign", "PlusAssign", "MinusAssign", "MulAssign", "ModAssign"}
    THEN AssignForm(TokAt(toks, pos).name, TokAt(toks, pos + 1).k,
                    parse_expr(toks, fs, pos + 2))
    ELSE IF TokAt(toks, pos + 1).k \in {"Ident", "Number", "Minus"}
            /\ TokAt(toks, pos).name \in fs
    THEN OutOf(CallArgs(toks, fs, pos + 1, TokAt(toks, pos).name, <<>>))
    ELSE IdentOpLoop(toks, fs, pos + 1, Ident(TokAt(toks, pos).name))

\* the node of parse_minus_expr: 0 - operand
NegOf(r) ==
    IF ~r.ok THEN r
    ELSE POk(Out(BinOp(Number(IV("I8", 0)), "Minus", r.node)), r.pos, <<>>)

\* Parser::parse_minus_expr
parse_minus_expr(toks, fs, pos) == NegOf(parse_primary(toks, fs, Consume(toks, pos)))

\* Parser::parse_number_expr
parse_number_expr(toks, fs, pos) == OutOf(parse_expr(toks, fs, pos))

\* Parser::parse_return_stmt
parse_return_stmt(toks, fs, pos) == ReturnOf(parse_expr(toks, fs, Consume(toks, pos)))

\* Parser::parse_out_stmt
parse_out_stmt(toks, fs, pos) == OutOf(parse_expr(toks, fs, Consume(toks, pos)))

\* the parameter loop of parse_func_def: identifiers separated by commas
RECURSIVE ParamLoop(_, _, _)
ParamLoop(toks, pos, params) ==
    IF TokAt(toks, pos).k = "Ident"
    THEN IF TokAt(toks, pos + 1).k = "Comma"
         THEN ParamLoop(toks, pos + 2, Append(params, TokAt(toks, pos).name))
         ELSE [params |-> Append(params, TokAt(toks, pos).name), pos |-> pos + 1]
    ELSE [params |-> params, pos |-> pos]

RECURSIVE parse_stmt(_, _, _)
RECURSIVE BodyLoop(_, _, _, _, _)
RECURSIVE BodyNext(_, _, _, _, _)

\* one turn of the body loop: the statement is kept, or its error is printed
\* as a warning and one token is skipped
AfterBodyTurn(toks, r) == IF r.ok THEN r.pos ELSE Consume(toks, r.pos)

BodyNext(toks, fs, r, body, warns) ==
    IF r.ok
    THEN BodyLoop(toks, fs, AfterBodyTurn(toks, r), Append(body, r.node), warns \o r.warns)
    ELSE BodyLoop(toks, fs, AfterBodyTurn(toks, r), body, warns \o r.warns \o <<r.err>>)

\* the body loop of parse_func_def, parse_if_stmt and parse_while_stmt: up to
\* the closing End or the end of the input
BodyLoop(toks, fs, pos, body, warns) ==
    IF pos >= Len(toks) THEN [body |-> body, pos |-> pos, warns |-> warns]
    ELSE IF TokAt(toks, pos).k = "End"
         THEN [body |-> body, pos |-> pos + 1, warns |-> warns]
    ELSE BodyNext(toks, fs, parse_stmt(toks, fs, pos), body, warns)

\* the node a block statement returns once its body is read
FuncDefOf(name, ps, b) == POk(FuncDef(name, ps.params, b.body), b.pos, b.warns)
BlockOf(k, cond, b) ==
    POk(IF k = "If" THEN If(cond, b.body) ELSE While(cond, b.body), b.pos, b.warns)

\* the parameters, then the body
FuncDefBody(toks, fs, name, ps) ==
    FuncDefOf(name, ps, BodyLoop(toks, fs, ps.pos, <<>>, <<>>))

\* Parser::parse_func_def
parse_func_def(toks, fs, pos) ==
    IF TokAt(toks, Consume(toks, pos)).k # "Ident"
    THEN PErr(<<"Expected function name">>, Consume(toks, pos), <<>>)
    ELSE FuncDefBody(toks, fs, TokAt(toks, Consume(toks, pos)).name,
                     ParamLoop(toks, Consume(toks, pos) + 1, <<>>))

\* the condition, then the body
BlockBody(toks, fs, k, cond) ==
    IF ~cond.ok THEN cond
    ELSE BlockOf(k, cond.node, BodyLoop(toks, fs, cond.pos, <<>>, <<>>))

\* Parser::parse_if_stmt
parse_if_stmt(toks, fs, pos) ==
    BlockBody(toks, fs, "If", parse_expr(toks, fs, Consume(toks, pos)))

\* Parser::parse_while_stmt
parse_while_stmt(toks, fs, pos) ==
    BlockBody(toks, fs, "While", parse_expr(toks, fs, Consume(toks, pos)))

\* Parser::parse_stmt
parse_stmt(toks, fs, pos) ==
    CASE TokAt(toks, pos).k = "Ident" -> parse_ident_stmt(toks, fs, pos)
      [] TokAt(toks, pos).k = "Number" -> parse_number_expr(toks, fs, pos)
      [] TokAt(toks, pos).k = "Minus" -> parse_minus_expr(toks, fs, pos)
      [] TokAt(toks, pos).k = "Def" -> parse_func_def(toks, fs, pos)
      [] TokAt(toks, pos).k = "If" -> parse_if_stmt(toks, fs, pos)
      [] TokAt(toks, pos).k = "While" -> parse_while_stmt(toks, fs, pos)
      [] TokAt(toks, pos).k = "Return" -> parse_return_stmt(toks, fs, pos)
      [] TokAt(toks, pos).k = "Out" -> parse_out_stmt(toks, fs, pos)
      [] TokAt(toks, pos).k = "None" -> PErr(<<"Unexpected end of input">>, pos, <<>>)
      [] OTHER -> PErr(<<"Expected statement, got ", TokAt(toks, pos).k>>, pos, <<>>)

\* one turn of the loop of parse_program: a Def that fails to parse is
\* skipped silently, any other statement that fails prints a warning; either
\* way one token is skipped and the loop goes on
RECURSIVE ProgramLoop(_, _, _, _, _)
RECURSIVE ProgramNext(_, _, _, _, _, _)
\* the position the next turn starts at, the statements and the warnings
\* after a turn
AfterTurnNoSkip(toks, isDef, r) == r.pos

AfterTurn(toks, isDef, r) ==
    IF r.ok THEN r.pos ELSE IF isDef THEN r.pos + 1 ELSE Consume(toks, r.pos)
StatementsAfter(r, statements) == IF r.ok THEN Append(statements, r.node) ELSE statements
WarningsAfter(isDef, r, warns) ==
    IF r.ok \/ isDef THEN warns \o r.warns ELSE warns \o r.warns \o <<r.err>>

ProgramNext(toks, fs, isDef, r, statements, warns) ==
    ProgramLoop(toks, fs, AfterTurn(toks, isDef, r), StatementsAfter(r, statements),
                WarningsAfter(isDef, r, warns))

\* the loop of Parser::parse_program.  parse_stmt hands a Def to
\* parse_func_def, as the loop itself does.
ProgramLoop(toks, fs, pos, statements, warns) ==
    IF pos >= Len(toks) THEN [statements |-> statements, warns |-> warns]
    ELSE ProgramNext(toks, fs, TokAt(toks, pos).k = "Def", parse_stmt(toks, fs, pos),
                     statements, warns)

\* Parser::parse_program
parse_program(toks, fs) == ProgramLoop(toks, fs, 0, <<>>, <<>>)

\* parser::parse: Parser::new (with the pre-scan), then parse_program
parse(toks) == parse_program(toks, scan_function_locations(toks))

(***************************************************************************)
(* semantic.rs : SemanticAnalyzer                                          *)
(***************************************************************************)
\* a SemanticAnalyzer: the names of the function map, the bound variables and
\* the keys of expr_cache.  Only Ok results are kept in the cache: an Err is
\* stored too, but every caller returns it at once and the analysis ends.
Analyzer(functions, variables, cache) ==
    [functions |-> functions, variables |-> variables, cache |-> cache]

AOk(st) == [ok |-> TRUE, err |-> NoText, st |-> st]
AErr(msg, st) == [ok |-> FALSE, err |-> msg, st |-> st]

\* SemanticAnalyzer::expr_hash, taken to be free of collisions: what is fed
\* to the hasher.  A TypedNumber contributes its tag only.
RECURSIVE expr_hash(_)
expr_hash(expr) ==
    CASE expr.e = "Number" -> <<"Number", expr.v>>
      [] expr.e = "TypedNumber" -> <<"TypedNumber">>
      [] expr.e = "Ident" -> <<"Ident", expr.name>>
      [] expr.e = "BinOp" -> <<"BinOp", expr_hash(expr.l), expr.op, expr_hash(expr.r)>>
      [] OTHER -> <<"Call", expr.name, Len(expr.args),
                    [i \in 1..Len(expr.args) |-> expr_hash(expr.args[i])]>>

RECURSIVE analyze_expr(_, _)
RECURSIVE AnalyzeArgs(_, _, _)
RECURSIVE ArgsNext(_, _, _)

\* SemanticAnalyzer::analyze_ident
analyze_ident(st, expr) ==
    IF expr.name \notin st.variables /\ expr.name \notin st.functions
    THEN AErr(<<"Undefined variable or function: ", expr.name>>, st)
    ELSE AOk(st)

\* SemanticAnalyzer::analyze_bin_op
analyze_bin_op(st, expr) ==
    LET l == analyze_expr(st, expr.l)
    IN  IF ~l.ok THEN l ELSE analyze_expr(l.st, expr.r)

\* the argument loop of analyze_call: "self.analyze_expr(arg)?" for each
ArgsNext(r, args, i) == IF ~r.ok THEN r ELSE AnalyzeArgs(r.st, args, i + 1)

AnalyzeArgs(st, args, i) ==
    IF i > Len(args) THEN AOk(st)
    ELSE ArgsNext(analyze_expr(st, args[i]), args, i)

\* SemanticAnalyzer::analyze_call
analyze_call(st, expr) ==
    IF expr.name \notin st.functions
    THEN AErr(<<"Undefined function: ", expr.name>>, st)
    ELSE AnalyzeArgs(st, expr.args, 1)

\* "self.expr_cache.insert(hash, result.clone())"
Cached(r, expr) ==
    IF r.ok THEN AOk([r.st EXCEPT !.cache = @ \cup {expr_hash(expr)}]) ELSE r

\* SemanticAnalyzer::analyze_expr: a cached result is returned as is
analyze_expr(st, expr) ==
    IF expr_hash(expr) \in st.cache THEN AOk(st)
    ELSE Cached(CASE expr.e \in {"Number", "TypedNumber"} -> AOk(st)
                  [] expr.e = "Ident" -> analyze_ident(st, expr)
                  [] expr.e = "BinOp" -> analyze_bin_op(st, expr)
                  [] OTHER -> analyze_call(st, expr),
                expr)

\* SemanticAnalyzer::analyze_func_def: the name is registered, the body is
\* not looked at
analyze_func_def(st, stmt) ==
    IF stmt.name \in st.functions
    THEN AErr(<<"Function already defined: ", stmt.name>>, st)
    ELSE AOk([st EXCEPT !.functions = @ \cup {stmt.name}])

RECURSIVE analyze_stmt(_, _)
RECURSIVE AnalyzeStmts(_, _, _)
RECURSIVE StmtsNext(_, _, _)

\* a statement list analysed in order, stopping at the first error
StmtsNext(r, stmts, i) == IF ~r.ok THEN r ELSE AnalyzeStmts(r.st, stmts, i + 1)

AnalyzeStmts(st, stmts, i) ==
    IF i > Len(stmts) THEN AOk(st)
    ELSE StmtsNext(analyze_stmt(st, stmts[i]), stmts, i)

\* analyze_assign: the expression, then "self.variables.insert(name)"
Bound(r, name) ==
    IF ~r.ok THEN r ELSE AOk([r.st EXCEPT !.variables = @ \cup {name}])

\* analyze_if / analyze_while: the condition, then the body
BodyAfter(r, body) == IF ~r.ok THEN r ELSE AnalyzeStmts(r.st, body, 1)

\* SemanticAnalyzer::analyze_stmt with analyze_assign, analyze_if,
\* analyze_while, analyze_return, analyze_out
analyze_stmt(st, stmt) ==
    CASE stmt.s = "Assign" -> Bound(analyze_expr(st, stmt.expr), stmt.name)
      [] stmt.s \in {"If", "While"} -> BodyAfter(analyze_expr(st, stmt.cond), stmt.body)
      [] stmt.s \in {"Return", "Out"} -> analyze_expr(st, stmt.expr)
      [] OTHER -> analyze_func_def(st, stmt)

IsFuncDef(stmt) == stmt.s = "FuncDef"
NotFuncDef(stmt) == stmt.s # "FuncDef"

\* pass 1 of analyze_program_parallel: the top-level definitions are
\* registered; a name that is already there is passed over
RegisterAll(statements) ==
    {statements[i].name : i \in {j \in 1..Len(statements) : IsFuncDef(statements[j])}}

\* the closure run for one function body: a fresh analyzer that knows the
\* parameters
AnalyzeBody(functions, def) ==
    AnalyzeStmts(Analyzer(functions, {def.params[i] : i \in 1..Len(def.params)}, {}),
                 def.body, 1)

\* "for result in analysis_results { result?; }": the first error in source
\* order
RECURSIVE FirstError(_, _)
FirstError(results, i) ==
    IF i > Len(results) THEN AOk(Analyzer({}, {}, {}))
    ELSE IF ~results[i].ok THEN results[i]
    ELSE FirstError(results, i + 1)

\* the last loop of analyze_program_parallel: once the bodies are through,
\* the statements that are not definitions, in order
TopLevelAfter(bodies, functions, non_function_stmts) ==
    IF ~bodies.ok THEN bodies
    ELSE AnalyzeStmts(Analyzer(functions, {}, {}), non_function_stmts, 1)

\* SemanticAnalyzer::analyze_program_parallel
analyze_program_parallel(statements) ==
    TopLevelAfter(
        FirstError([i \in 1..Len(SelectSeq(statements, IsFuncDef)) |->
                       AnalyzeBody(RegisterAll(statements),
                                   SelectSeq(statements, IsFuncDef)[i])], 1),
        RegisterAll(statements),
        SelectSeq(statements, NotFuncDef))

\* semantic::analyze: Ok(program) or the error
AnalysisResult(r) == [ok |-> r.ok, err |-> r.err]

analyze(statements) == AnalysisResult(analyze_program_parallel(statements))

(***************************************************************************)
(* bytecode.rs : Bytecode, the compiler                                    *)
(***************************************************************************)
\* a Bytecode instruction: the variant and its operands (a name, a value, a
\* jump offset or a register index)
Instr(op, name, v, n) == [op |-> op, name |-> name, v |-> v, n |-> n]

Zero64 == IV("I64", 0)
One64 == IV("I64", 1)

LoadConst(v) == Instr("LoadConst", "", v, 0)
LoadVar(name) == Instr("LoadVar", name, Zero64, 0)
StoreVar(name) == Instr("StoreVar", name, Zero64, 0)
LoadReg(reg, name) == Instr("LoadReg", name, Zero64, reg)
Jump(offset) == Instr("Jump", "", Zero64, offset)
JumpIfFalse(offset) == Instr("JumpIfFalse", "", Zero64, offset)
CallI(name) == Instr("Call", name, Zero64, 0)
TailCall(name) == Instr("TailCall", name, Zero64, 0)
Plain(op) == Instr(op, "", Zero64, 0)

\* a map (HashMap) as a function; insert adds or overwrites
EmptyMap == [k \in {} |-> 0]
MapInsert(m, key, val) ==
    [k \in DOMAIN m \cup {key} |-> IF k = key THEN val ELSE m[k]]

\* the 1 / 0 (I64) a comparison yields
Truth(b) == IF b THEN One64 ELSE Zero64

\* "if a <= b { 1 } else { 0 }" and its likes: the comparison goes through
\* Ord::cmp, which panics for some pairs of different variants
Compared(a, b, holds) ==
    IF CmpPanics(a, b) THEN Panic(<<"Cannot compare mixed integer types">>)
    ELSE Ok(Truth(holds))

\* the algebra applied for a BinOpType
ApplyBinOp(op, a, b) ==
    CASE op = "Plus" -> IntAdd(a, b)
      [] op = "Minus" -> IntSub(a, b)
      [] op = "Mul" -> IntMul(a, b)
      [] op = "Mod" -> IntRem(a, b)
      [] op = "Le" -> Compared(a, b, IntLe(a, b))
      [] op = "Lt" -> Compared(a, b, IntLt(a, b))
      [] op = "Gt" -> Compared(a, b, IntGt(a, b))
      [] op = "Ge" -> Compared(a, b, IntGe(a, b))
      [] OTHER -> Ok(Truth(IntEq(a, b)))

\* (a variant that folds no operation)
ConstBinOpUnfolded(op, a, b) == Err(NoText)

\* the BinOp arm of evaluate_const_expr: both sides constant, and the algebra
\* returns Ok; a panic of either side or of the operation unwinds
ConstBinOp(op, a, b) ==
    IF a.panic THEN a
    ELSE IF b.panic THEN b
    ELSE IF a.ok /\ b.ok THEN ApplyBinOp(op, a.val, b.val)
    ELSE Err(NoText)

\* evaluate_const_expr: Some(value) as Ok, None as Err
RECURSIVE evaluate_const_expr(_)
evaluate_const_expr(expr) ==
    CASE expr.e \in {"Number", "TypedNumber"} -> Ok(expr.v)
      [] expr.e = "BinOp" ->
            ConstBinOp(expr.op, evaluate_const_expr(expr.l), evaluate_const_expr(expr.r))
      [] OTHER -> Err(NoText)

\* the number of virtual registers of RegisterAllocator
NumRegisters == 8

\* RegisterAllocator::allocate_register_for_var.  No register is ever freed
\* during compilation, so the allocator is the sequence of the variables that
\* hold registers 0, 1, ...; the result is the register index or -1 (None).
\* (RegOfNone: an allocator that never has a register)
RegOfNone(alloc, name) == 0 - 1

RegOf(alloc, name) ==
    IF \E i \in 1..Len(alloc) : alloc[i] = name
    THEN (CHOOSE i \in 1..Len(alloc) : alloc[i] = name) - 1
    ELSE IF Len(alloc) < NumRegisters THEN Len(alloc) ELSE 0 - 1

AllocAfter(alloc, name) ==
    IF (\E i \in 1..Len(alloc) : alloc[i] = name) \/ Len(alloc) >= NumRegisters
    THEN alloc ELSE Append(alloc, name)

\* the instruction a BinOpType compiles to
OpInstr(op) ==
    CASE op = "Plus" -> Plain("Add")
      [] op = "Minus" -> Plain("Sub")
      [] OTHER -> Plain(op)

\* "func_code.len() < 10": the size below which a call is inlined
InlineLimit == 10

\* the inlining test of the Expr::Call arm
Inlines(nargs, param_count, code_len) ==
    nargs = param_count /\ code_len < InlineLimit

RECURSIVE compile_expr_with_register_alloc(_, _, _, _)
RECURSIVE CompileArgs(_, _, _, _, _)
RECURSIVE CompileNonConst(_, _, _, _)
RECURSIVE FoldedOr(_, _, _, _, _)

\* the argument loop: each argument is compiled in order
CompileArgs(args, i, instructions, functions, alloc) ==
    IF i > Len(args) THEN [code |-> instructions, alloc |-> alloc]
    ELSE LET r == compile_expr_with_register_alloc(args[i], instructions, functions, alloc)
         IN  CompileArgs(args, i + 1, r.code, functions, r.alloc)

\* the arms of compile_expr_with_register_alloc for an expression that did
\* not fold to a constant
CompileNonConst(expr, instructions, functions, alloc) ==
    CASE expr.e \in {"Number", "TypedNumber"} ->
            [code |-> Append(instructions, LoadConst(expr.v)), alloc |-> alloc]
      [] expr.e = "Ident" ->
            IF expr.name \in DOMAIN functions
            THEN [code |-> Append(instructions, CallI(expr.name)), alloc |-> alloc]
            ELSE IF RegOf(alloc, expr.name) >= 0
            THEN [code |-> Append(instructions,
                                  LoadReg(RegOf(alloc, expr.name), expr.name)),
                  alloc |-> AllocAfter(alloc, expr.name)]
            ELSE [code |-> Append(instructions, LoadVar(expr.name)),
                  alloc |-> alloc]
      [] expr.e = "BinOp" ->
            LET l == compile_expr_with_register_alloc(expr.l, instructions,
                                                      functions, alloc)
                r == compile_expr_with_register_alloc(expr.r, l.code,
                                                      functions, l.alloc)
            IN  [code |-> Append(r.code, OpInstr(expr.op)), alloc |-> r.alloc]
      [] OTHER ->
            LET a == CompileArgs(expr.args, 1, instructions, functions, alloc)
            IN  IF expr.name \in DOMAIN functions
                   /\ Inlines(Len(expr.args),
                              Len(functions[expr.name].params),
                              Len(functions[expr.name].code))
                THEN [code |-> a.code \o functions[expr.name].code,
                      alloc |-> a.alloc]
                ELSE [code |-> Append(a.code, CallI(expr.name)),
                      alloc |-> a.alloc]

\* "if let Some(const_value) = evaluate_const_expr(expr)": the constant is
\* loaded, or the expression is compiled arm by arm.  A panic of
\* evaluate_const_expr unwinds through the compiler: the place is marked by
\* the pseudo-instruction Panic, and a program that holds one was never
\* produced (see Compile).
FoldedOr(const, expr, instructions, functions, alloc) ==
    IF const.panic
    THEN [code |-> Append(instructions, Plain("Panic")), alloc |-> alloc]
    ELSE IF const.ok
    THEN [code |-> Append(instructions, LoadConst(const.val)), alloc |-> alloc]
    ELSE CompileNonConst(expr, instructions, functions, alloc)

\* compile_expr_with_register_alloc: the instructions with the code of expr
\* appended, and the allocator afterwards
compile_expr_with_register_alloc(expr, instructions, functions, alloc) ==
    FoldedOr(evaluate_const_expr(expr), expr, instructions, functions, alloc)

\* compile_expr: a fresh RegisterAllocator for every expression
compile_expr(expr, instructions, functions) ==
    compile_expr_with_register_alloc(expr, instructions, functions, <<>>).code

\* the offset compile_statements gives the JumpIfFalse of an if:
\* "body.len() as i32 + 1", body being the statement list
IfJumpOffset(body) == Len(body) + 1

\* "loop_start as i32 - (jump_back_pos as i32 + 1)"
JumpBackOffsetOffByOne(loop_start, jump_back_pos) == loop_start - jump_back_pos

JumpBackOffset(loop_start, jump_back_pos) == loop_start - (jump_back_pos + 1)

\* "loop_end as i32 - (jump_if_false_pos as i32 + 1)"
JumpOutOffset(loop_end, jump_if_false_pos) == loop_end - (jump_if_false_pos + 1)

\* the instruction that follows the expression of an assignment, a return
\* and an out statement
Closing(stmt) ==
    CASE stmt.s = "Assign" -> StoreVar(stmt.name)
      [] stmt.s = "Return" -> Plain("Return")
      [] OTHER -> Plain("Out")

\* the arms of one expression: its code, then the closing instruction
CompileSimple(stmt, instructions, functions) ==
    Append(compile_expr(stmt.expr, instructions, functions), Closing(stmt))

\* the body loop with an arm for return statements as well
RECURSIVE WhileBodyWithReturn(_, _, _, _)
WhileBodyWithReturn(body, i, instructions, functions) ==
    IF i > Len(body) THEN instructions
    ELSE IF body[i].s \in {"Assign", "Out", "Return"}
    THEN WhileBodyWithReturn(body, i + 1,
                             CompileSimple(body[i], instructions, functions), functions)
    ELSE WhileBodyWithReturn(body, i + 1, instructions, functions)

\* the body loop of the Stmt::While arm: assignments and out statements are
\* compiled, every other statement is passed over
RECURSIVE WhileBody(_, _, _, _)
WhileBody(body, i, instructions, functions) ==
    IF i > Len(body) THEN instructions
    ELSE IF body[i].s \in {"Assign", "Out"}
    THEN WhileBody(body, i + 1, CompileSimple(body[i], instructions, functions), functions)
    ELSE WhileBody(body, i + 1, instructions, functions)

\* the argument loop of a return of a call: every argument with compile_expr
RECURSIVE TailArgs(_, _, _, _)
TailArgs(args, i, instructions, functions) ==
    IF i > Len(args) THEN instructions
    ELSE TailArgs(args, i + 1, compile_expr(args[i], instructions, functions), functions)

RECURSIVE compile_statements(_, _)
RECURSIVE CompileFrom(_, _, _, _)

\* the end of the Stmt::While arm: the back-edge Jump is appended and the
\* JumpIfFalse placeholder is patched
WhilePatch(loop_start, jump_if_false_pos, withBody) ==
    [Append(withBody, Jump(JumpBackOffset(loop_start, Len(withBody))))
        EXCEPT ![jump_if_false_pos + 1] =
            JumpIfFalse(JumpOutOffset(Len(withBody) + 1, jump_if_false_pos))]

\* the middle of the Stmt::While arm: the placeholder, then the body
WhileAfterCond(stmt, loop_start, withCond, functions) ==
    WhilePatch(loop_start, Len(withCond),
               WhileBody(stmt.body, 1, Append(withCond, JumpIfFalse(0)), functions))

\* the Stmt::While arm
CompileWhile(stmt, instructions, functions) ==
    WhileAfterCond(stmt, Len(instructions),
                   compile_expr(stmt.cond, instructions, functions), functions)

\* the Stmt::If arm
CompileIf(stmt, instructions, functions) ==
    Append(compile_expr(stmt.cond, instructions, functions),
           JumpIfFalse(IfJumpOffset(stmt.body)))
      \o compile_statements(stmt.body, functions)

\* the arm of compile_statements for one statement
CompileStmt(stmt, instructions, functions) ==
    CASE stmt.s \in {"Assign", "Return", "Out"} ->
            CompileSimple(stmt, instructions, functions)
      [] stmt.s = "If" -> CompileIf(stmt, instructions, functions)
      [] stmt.s = "While" -> CompileWhile(stmt, instructions, functions)
      [] OTHER -> instructions

\* the statement loop of compile_statements; the return of a call ends the
\* compilation of the list ("return instructions")
CompileFrom(statements, i, instructions, functions) ==
    IF i > Len(statements) THEN instructions
    ELSE IF statements[i].s = "Return" /\ statements[i].expr.e = "Call"
    THEN Append(instructions \o TailArgs(statements[i].expr.args, 1, <<>>, functions),
                TailCall(statements[i].expr.name))
    ELSE CompileFrom(statements, i + 1,
                     CompileStmt(statements[i], instructions, functions), functions)

\* compile_statements
compile_statements(statements, functions) == CompileFrom(statements, 1, <<>>, functions)

\* IncrementalCompiler::compute_function_hash, taken to be free of
\* collisions: what is fed to the hasher
compute_function_hash(name, params, body) == <<name, params, body>>

\* a CompiledFunction.  param_str (the names joined by commas) is kept as
\* the list of names: identifiers are non-empty and hold no comma, so
\* splitting it at the commas and dropping empty pieces gives the list back.
CompiledFunction(params, instructions) ==
    [params |-> params, instructions |-> instructions, param_count |-> Len(params),
     inline_hint |-> Len(instructions) < InlineLimit]

\* the miss of compile_function: the function is entered in the cache
CacheInsert(cache, name, func_hash, compiled_func) ==
    [func |-> compiled_func,
     cache |-> MapInsert(cache, name, [hash |-> func_hash, func |-> compiled_func])]

\* compile_function without the look in the cache: every call compiles
compile_function_afresh(cache, name, params, body, functions) ==
    CacheInsert(cache, name, compute_function_hash(name, params, body),
                CompiledFunction(params, compile_statements(body, functions)))

\* IncrementalCompiler::compile_function: the CompiledFunction and the cache
\* afterwards
compile_function(cache, name, params, body, functions) ==
    IF name \in DOMAIN cache /\ cache[name].hash = compute_function_hash(name, params, body)
    THEN [func |-> cache[name].func, cache |-> cache]
    ELSE CacheInsert(cache, name, compute_function_hash(name, params, body),
                     CompiledFunction(params, compile_statements(body, functions)))

\* a BytecodeProgram
BytecodeProgram(instructions, functions, compiled_functions, cache) ==
    [instructions |-> instructions, functions |-> functions,
     compiled_functions |-> compiled_functions, incremental_compiler |-> cache]

\* the first loop of compile_to_bytecode: every top-level definition, in
\* order, is compiled against the table built so far and entered in it, then
\* compiled again by the incremental compiler against the table that now
\* holds it
RECURSIVE CompileDefs(_, _, _)
RECURSIVE DefCompiled(_, _, _, _, _)
RECURSIVE DefEntered(_, _, _, _, _)

DefCompiled(statements, i, prog, functions, c) ==
    CompileDefs(statements, i + 1,
                BytecodeProgram(<<>>, functions,
                                MapInsert(prog.compiled_functions, statements[i].name, c.func),
                                c.cache))

DefEntered(statements, i, prog, def, functions) ==
    DefCompiled(statements, i, prog, functions,
                compile_function(prog.incremental_compiler, def.name, def.params,
                                 def.body, functions))

CompileDefs(statements, i, prog) ==
    IF i > Len(statements) THEN prog
    ELSE IF statements[i].s # "FuncDef" THEN CompileDefs(statements, i + 1, prog)
    ELSE DefEntered(statements, i, prog, statements[i],
                    MapInsert(prog.functions, statements[i].name,
                              [params |-> statements[i].params,
                               code |-> compile_statements(statements[i].body,
                                                           prog.functions)]))

\* the second loop of compile_to_bytecode: the statements that are not
\* definitions, compiled against the finished table
WithMain(defs, statements) ==
    [defs EXCEPT !.instructions =
        compile_statements(SelectSeq(statements, NotFuncDef), defs.functions)]

\* compile_to_bytecode
compile_to_bytecode(statements) ==
    WithMain(CompileDefs(statements, 1, BytecodeProgram(<<>>, EmptyMap, EmptyMap, EmptyMap)),
             statements)

(***************************************************************************)
(* bytecode.rs : the values that cross a call boundary                     *)
(***************************************************************************)
\* the decimal digits of 2^64
Pow64Digits == <<1, 8, 4, 4, 6, 7, 4, 4, 0, 7, 3, 7, 0, 9, 5, 5, 1, 6, 1, 6>>

\* "v as u64" of an i64: the same 64 bits, so a negative v reads as 2^64 + v
as_u64(v) == IF v.neg THEN BigAdd(Norm(FALSE, Pow64Digits), v) ELSE v

\* u64::to_string
u64_to_string(r) == BigText(r)

DigitVal(c) == (CHOOSE i \in 1..10 : DigitChar[i] = c) - 1

\* the number an unsigned decimal text denotes
TextValue(text) == Norm(FALSE, Strip([i \in 1..Len(text) |-> DigitVal(text[i])]))

\* IntegerValue::from_string(text, I64) for an unsigned decimal text:
\* str::parse::<i64> fails above i64::MAX
from_string_i64(text) ==
    IF InRange("I64", TextValue(text))
    THEN Ok(IVal("I64", TextValue(text)))
    ELSE Err(<<"Value ">> \o text \o <<" out of range for i64">>)

\* a decimal numeral as str::parse and BigInt::parse_bytes read it: an
\* optional sign, then one digit or more
Signed(text) == Len(text) > 0 /\ text[1] \in {"-", "+"}
Unsigned(text) == IF Signed(text) THEN Tail(text) ELSE text
IsNumeral(text) ==
    /\ Len(Unsigned(text)) > 0
    /\ \A i \in 1..Len(Unsigned(text)) :
          \E d \in 1..10 : DigitChar[d] = Unsigned(text)[i]
NumeralValue(text) == Norm(text[1] = "-", TextValue(Unsigned(text)).mag)

\* IntegerValue::from_string: s.parse::<iN>() of the fixed widths fails on
\* a text that is no numeral and on a value outside the width, with the one
\* message; BigInt::parse_bytes fails on a text that is no numeral
from_string(s, int_type) ==
    IF int_type = "BigInt"
    THEN IF IsNumeral(s) THEN Ok(IVal("BigInt", NumeralValue(s)))
         ELSE Err(<<"Invalid bigint value: ">> \o s)
    ELSE IF IsNumeral(s) /\ InRange(int_type, NumeralValue(s))
    THEN Ok(IVal(int_type, NumeralValue(s)))
    ELSE Err(<<"Value ">> \o s \o <<" out of range for ", TypeName(int_type)>>)

\* the conversion of a popped Value to a u64 argument or return value:
\* to_i64, then "as u64"; a value that does not fit i64 becomes 0
ValueToU64(val) == IF to_i64(val).ok THEN as_u64(to_i64(val).val.v) ELSE Big(0)

\* the small number of a magnitude
RECURSIVE MagInt(_)
MagInt(m) == IF Len(m) = 0 THEN 0 ELSE 10 * MagInt(Front(m)) + Last(m)

\* fibonacci_memoized for an argument n >= 0
RECURSIVE fibonacci_memoized(_)
fibonacci_memoized(n) ==
    IF n <= 1 THEN n ELSE fibonacci_memoized(n - 1) + fibonacci_memoized(n - 2)

(***************************************************************************)
(* bytecode.rs : the virtual machine                                       *)
(***************************************************************************)
VARIABLES
    tokens,     \* the token list handed to parser::parse
    phase,      \* "lexed", "parsed", "analyzed", "running", and the ends
                \* "done" (Ok), "failed" (Err), "aborted" (panic)
    ast,        \* Program.statements
    warnings,   \* the "Warning: ..." lines the parser printed
    program,    \* the BytecodeProgram
    frames,     \* the live activations, innermost last: frames[1] is
                \* BytecodeInterpreter::execute, the others are calls of
                \* execute_function
    output,     \* BytecodeInterpreter.output
    stdout,     \* the lines execute_function printed with println!
    stderr,     \* the "Warning: ..." lines execute printed with eprintln!
    executed,   \* history: the text of the value popped by every Out
                \* instruction executed so far, in execution order
    result,     \* the Result of the pipeline: Ok((u64, output)) or Err(message)
    calc,       \* one use of the integer algebra on its own: the operands,
                \* the operation applied ("" before it is), its Result, and
                \* the Ordering of a comparison
    incremental, \* an IncrementalCompiler on its own: its cache, and the
                \* arguments and the CompiledFunction returned of the last
                \* call of compile_function
    source,     \* the source text handed to lexer::tokenize, character by
                \* character
    analysis,   \* analyze_program_parallel while the function bodies are
                \* analysed: the function table behind the shared Arc, and
                \* the local analyzer, the position and the result of the
                \* closure of every body
    lru_cache,  \* an LRUCache on its own: capacity, cache and lru
    parser_pos  \* Parser.pos while parse_program runs turn by turn

vars ==
    <<tokens, phase, ast, warnings, program, frames, output, stdout, stderr, executed, result,
      calc, incremental, source, analysis, lru_cache, parser_pos>>

\* Option<Value>: None is <<>>, Some(v) is <<v>>
None == <<>>
Some(v) == <<v>>

\* an activation: stack, variables, registers and pc of execute or of
\* execute_function, the instructions it runs, and how it was entered
\* ("top", or the instruction of the caller: "Call" / "TailCall")
Frame(code, variables, via) ==
    [code |-> code, pc |-> 0, stack |-> <<>>, variables |-> variables,
     registers |-> [i \in 0..(NumRegisters - 1) |-> None], via |-> via]

\* "stack.pop().unwrap_or_else(|| zero)"
Top(stack) == IF Len(stack) = 0 THEN Zero64 ELSE Last(stack)
Pop(stack) == IF Len(stack) = 0 THEN stack ELSE Front(stack)

\* "variables.get(name).cloned().unwrap_or_else(|| zero)"
Lookup(variables, name) == IF name \in DOMAIN variables THEN variables[name] ELSE Zero64

\* what the arithmetic arms push when the algebra returns Err: zero
\* (execute also prints a warning on stderr) and the execution goes on
ArithResult(r) == IF r.ok THEN r.val ELSE Zero64

\* the arms of the instruction match that only touch the activation; f has
\* its pc already advanced
BinaryOps == {"Add", "Sub", "Mul", "Mod", "Le", "Lt", "Gt", "Ge", "Eq"}
LoadStoreOps == {"LoadConst", "LoadVar", "StoreVar", "LoadReg"}

BinOpOf(op) == CASE op = "Add" -> "Plus" [] op = "Sub" -> "Minus" [] OTHER -> op

StepLoadStore(f, instr) ==
    CASE instr.op = "LoadConst" -> [f EXCEPT !.stack = Append(@, instr.v)]
      [] instr.op = "LoadVar" ->
            [f EXCEPT !.stack = Append(@, Lookup(f.variables, instr.name))]
      [] instr.op = "StoreVar" ->
            [f EXCEPT !.variables = MapInsert(@, instr.name, Top(f.stack)),
                      !.stack = Pop(@)]
      [] OTHER ->
            IF instr.n < NumRegisters
            THEN [f EXCEPT !.registers[instr.n] = Some(Lookup(f.variables, instr.name)),
                           !.stack = Append(@, Lookup(f.variables, instr.name))]
            ELSE f

StepBinary(f, instr) ==
    LET b == Top(f.stack)
        a == Top(Pop(f.stack))
    IN  [f EXCEPT !.stack =
            Append(Pop(Pop(f.stack)), ArithResult(ApplyBinOp(BinOpOf(instr.op), a, b)))]

\* the line execute prints when the algebra returns Err (execute_function
\* prints nothing)
ArithWarning(f, instr) ==
    LET r == ApplyBinOp(BinOpOf(instr.op), Top(Pop(f.stack)), Top(f.stack))
    IN  IF r.ok \/ r.panic THEN <<>> ELSE << <<"Warning: ">> \o r.err >>

\* the operation of a binary arm panics (MIN % -1, a comparison of a large
\* BigInt with another width)
BinaryPanics(f, instr) ==
    ApplyBinOp(BinOpOf(instr.op), Top(Pop(f.stack)), Top(f.stack)).panic

\* the truth test of JumpIfFalse
IsFalse(val) == val.v.mag = <<0>>

\* "pc = (pc as i32 + offset) as usize": a negative sum wraps to a usize
\* above every instruction count, for which PastEnd stands
PastEnd == I32Max
JumpTarget(pc, offset) == IF pc + offset < 0 THEN PastEnd ELSE pc + offset

\* Result<u64, String> of execute / execute_function
OkU64(r) == [ok |-> TRUE, val |-> r, err |-> NoText]
ErrU64(msg) == [ok |-> FALSE, val |-> Big(0), err |-> msg]
NoResult == [ok |-> FALSE, val |-> Big(0), err |-> NoText]

\* the state an instruction leaves: the phase, the activations, the result
Running(fs) == [phase |-> "running", frames |-> fs, result |-> NoResult]
Done(r) == [phase |-> "done", frames |-> <<>>, result |-> OkU64(r)]
Failed(msg) == [phase |-> "failed", frames |-> <<>>, result |-> ErrU64(msg)]
Aborted == [phase |-> "aborted", frames |-> <<>>, result |-> NoResult]

\* the activation that is executing and its next instruction
Cur == Last(frames)
AtInstr == phase = "running" /\ Cur.pc < Len(Cur.code)
CurInstr == Cur.code[Cur.pc + 1]
Advanced == [Cur EXCEPT !.pc = @ + 1]
InExecute == Len(frames) = 1
WithCur(f) == [frames EXCEPT ![Len(frames)] = f]

\* an activation returns r: execute hands it to the pipeline; a function
\* entered by Call has r pushed on the caller's stack, as the I64 read back
\* from its text (the unwrap panics above i64::MAX); a function entered by
\* TailCall has its caller return r in turn.  callers are the activations
\* below the one that returns, via is how that one was entered.
RECURSIVE ReturnTo(_, _, _)
ReturnTo(callers, r, via) ==
    CASE via = "top" -> Done(r)
      [] via = "Call" ->
            LET back == from_string_i64(u64_to_string(r))
                caller == Last(callers)
            IN  IF ~back.ok THEN Aborted
                ELSE Running([callers EXCEPT ![Len(callers)] =
                                 [caller EXCEPT !.stack = Append(@, back.val)]])
      [] OTHER -> ReturnTo(Front(callers), r, Last(callers).via)

\* the arguments read without being removed from the stack
RECURSIVE PopArgsPeeked(_, _)
PopArgsPeeked(stack, count) ==
    IF count = 0 THEN [args |-> <<>>, stack |-> stack]
    ELSE LET rest == PopArgsPeeked(Pop(stack), count - 1)
         IN  [args |-> Append(rest.args, ValueToU64(Top(stack))), stack |-> stack]

\* the arguments popped for a call: param_count values, the topmost last
RECURSIVE PopArgs(_, _)
PopArgs(stack, count) ==
    IF count = 0 THEN [args |-> <<>>, stack |-> stack]
    ELSE LET rest == PopArgs(Pop(stack), count - 1)
         IN  [args |-> Append(rest.args, ValueToU64(Top(stack))), stack |-> rest.stack]

\* the single-parameter test taking a TailCall for a call as well
LooksRecursiveAnyCall(instructions, params, functions) ==
    /\ Len(params) = 1
    /\ \E i \in 1..Len(instructions) :
          /\ instructions[i].op \in {"Call", "TailCall"}
          /\ instructions[i].name \in DOMAIN functions

\* the single-parameter test at the head of execute_function: some Call in
\* the instructions names a function of the table
LooksRecursive(instructions, params, functions) ==
    /\ Len(params) = 1
    /\ \E i \in 1..Len(instructions) :
          instructions[i].op = "Call" /\ instructions[i].name \in DOMAIN functions

\* the variable map execute_function starts with: every parameter bound to
\* its argument as an I64 (a later parameter of the same name wins)
BindParams(params, args) ==
    [name \in {params[i] : i \in 1..Len(params)} |->
        from_string_i64(u64_to_string(
            args[CHOOSE i \in 1..Len(params) :
                    params[i] = name /\ \A j \in (i + 1)..Len(params) : params[j] # name])).val]

\* a call of execute_function(instructions, param_str, args, functions) made
\* by the instruction via of the activation caller (already advanced, the
\* arguments popped), on top of the activations below
execute_function(below, caller, via, instructions, params, args, functions) ==
    IF Len(args) > 0 /\ LooksRecursive(instructions, params, functions)
    THEN IF ~InRange("I64", args[1]) THEN Aborted
         ELSE ReturnTo(Append(below, caller),
                       Big(fibonacci_memoized(MagInt(args[1].mag))), via)
    ELSE IF Len(args) # Len(params)
    THEN Failed(<<"Parameter count mismatch: expected ">> \o Decimal(Len(params))
                \o <<" parameters, got ">> \o Decimal(Len(args)))
    ELSE IF \E i \in 1..Len(args) : ~from_string_i64(u64_to_string(args[i])).ok
    THEN Aborted
    ELSE Running(below \o <<caller, Frame(instructions, BindParams(params, args), via)>>)

\* the function a Call / TailCall names.  execute looks in
\* compiled_functions first (a TailCall: only there), execute_function looks
\* in functions.
CalleeOf(name, op) ==
    IF InExecute
    THEN IF name \in DOMAIN program.compiled_functions
         THEN [found |-> TRUE,
               params |-> program.compiled_functions[name].params,
               code |-> program.compiled_functions[name].instructions]
         ELSE IF op = "Call" /\ name \in DOMAIN program.functions
         THEN [found |-> TRUE, params |-> program.functions[name].params,
               code |-> program.functions[name].code]
         ELSE [found |-> FALSE, params |-> <<>>, code |-> <<>>]
    ELSE IF name \in DOMAIN program.functions
         THEN [found |-> TRUE, params |-> program.functions[name].params,
               code |-> program.functions[name].code]
         ELSE [found |-> FALSE, params |-> <<>>, code |-> <<>>]

\* the Call and TailCall arms, passing over a name that is not found
InvokeSkipping(instr) ==
    LET callee == CalleeOf(instr.name, instr.op)
        popped == PopArgs(Cur.stack, Len(callee.params))
    IN  IF ~callee.found THEN Running(WithCur(Advanced))
        ELSE execute_function(Front(frames), [Advanced EXCEPT !.stack = popped.stack],
                              instr.op, callee.code, callee.params, popped.args,
                              program.functions)

\* the Call and TailCall arms
Invoke(instr) ==
    LET callee == CalleeOf(instr.name, instr.op)
        popped == PopArgs(Cur.stack, Len(callee.params))
    IN  IF ~callee.found THEN Failed(<<"Function not found: ", instr.name>>)
        ELSE execute_function(Front(frames), [Advanced EXCEPT !.stack = popped.stack],
                              instr.op, callee.code, callee.params, popped.args,
                              program.functions)

Goto(next) ==
    /\ phase' = next.phase
    /\ frames' = next.frames
    /\ result' = next.result

(***************************************************************************)
(* the source programs the pipeline is run on, as token lists               *)
(***************************************************************************)
\* shorthands for the statements the programs are built from
OutNum(n) == <<Tok("Out"), TNumber(n)>>
OutVar(name) == <<Tok("Out"), TIdent(name)>>
Let(name, n) == <<TIdent(name), Tok("Assign"), TNumber(n)>>

\* def f n return n + 1 end
DefSucc ==
    <<Tok("Def"), TIdent("f"), TIdent("n"), Tok("Return"), TIdent("n"), Tok("Plus"),
      TNumber(1), Tok("End")>>

\* spec scenario: a function call, alone and followed by another statement
SrcCall == DefSucc \o <<Tok("Out"), TIdent("f"), TNumber(4)>>
SrcCallThen == SrcCall \o OutNum(9)

\* spec scenario: an overflowing typed addition, alone and followed by
\* another statement
SrcOverflow == <<Tok("Out"), TTyped(127, "I8"), Tok("Plus"), TTyped(1, "I8")>>
SrcOverflowThen == SrcOverflow \o OutNum(5)

\* spec scenario: out 1 + 2 * 3
SrcPrecedence == <<Tok("Out"), TNumber(1), Tok("Plus"), TNumber(2), Tok("Mul"), TNumber(3)>>

\* a function whose body prints: called by a Call instruction (the body is
\* too long to be inlined) and by a top-level tail call
SrcOutInCall ==
    <<Tok("Def"), TIdent("f"), TIdent("n")>> \o OutVar("n") \o OutVar("n") \o OutVar("n")
    \o OutVar("n") \o <<Tok("Return"), TIdent("n"), Tok("Plus"), TNumber(1), Tok("End")>>
    \o OutNum(8) \o <<Tok("Out"), TIdent("f"), TNumber(4)>>
SrcOutInTailCall ==
    <<Tok("Def"), TIdent("f"), TIdent("n")>> \o OutVar("n")
    \o <<Tok("Return"), TIdent("n"), Tok("End")>>
    \o OutNum(8) \o <<Tok("Return"), TIdent("f"), TNumber(4)>>

\* a chain of N tail calls:
\*   def f n  if n < 1 return 0 end  return f n - 1 end   out f N
MaxN == 3
SrcTailChain(N) ==
    <<Tok("Def"), TIdent("f"), TIdent("n"),
      Tok("If"), TIdent("n"), Tok("Lt"), TNumber(1), Tok("Return"), TNumber(0), Tok("End"),
      Tok("Return"), TIdent("f"), TIdent("n"), Tok("Minus"), TNumber(1), Tok("End"),
      Tok("Out"), TIdent("f"), TNumber(N)>>
TailChainSources == {SrcTailChain(N) : N \in 0..MaxN}

\* if statements:  x = 5  a = A  if a BODY end  out x
IfBodies ==
    { <<>>,
      Let("x", 1),
      OutNum(1),
      <<TIdent("x"), Tok("Assign"), TIdent("a"), Tok("Plus"), TNumber(7)>>,
      Let("x", 1) \o Let("x", 2),
      OutNum(1) \o OutNum(2),
      <<Tok("Out"), TIdent("a"), Tok("Plus"), TNumber(1)>> \o Let("x", 3) }
SrcIf(A, body) ==
    Let("x", 5) \o Let("a", A) \o <<Tok("If"), TIdent("a")>> \o body \o <<Tok("End")>>
    \o OutVar("x")
IfSources == {SrcIf(A, body) : A \in {0, 1}, body \in IfBodies}

\* while loops:  i = 0  while i < K BODY end  out 9
MaxIter == 3
Incr(name) == <<TIdent(name), Tok("PlusAssign"), TNumber(1)>>
BodyOutIncr == OutVar("i") \o Incr("i")
BodyIncr == Incr("i")
BodyIncrOut == Incr("i") \o OutVar("i") \o OutNum(4)
WhileBodies == {BodyOutIncr, BodyIncr, BodyIncrOut}
SrcLoop(K, body) ==
    Let("i", 0) \o <<Tok("While"), TIdent("i"), Tok("Lt"), TNumber(K)>> \o body
    \o <<Tok("End")>>
\* spec scenario: a counting loop
SrcWhile == SrcLoop(3, BodyOutIncr)
\* a loop in the body of a function that is called:
\*   def f n  i = 0  while i < n out i i += 1 end  return i end   out f 2
SrcLoopInFunction ==
    <<Tok("Def"), TIdent("f"), TIdent("n")>> \o Let("i", 0)
    \o <<Tok("While"), TIdent("i"), Tok("Lt"), TIdent("n")>> \o BodyOutIncr
    \o <<Tok("End"), Tok("Return"), TIdent("i"), Tok("End"),
         Tok("Out"), TIdent("f"), TNumber(2)>>
WhileSources ==
    {SrcWhile, SrcLoopInFunction} \cup {SrcLoop(K, body) \o OutNum(9) : K \in 0..MaxIter, body \in WhileBodies}

\* two definitions of one name
DefIdent ==
    <<Tok("Def"), TIdent("f"), TIdent("n"), Tok("Return"), TIdent("n"), Tok("End")>>
SrcDupDifferent == DefIdent \o DefSucc \o OutNum(1)
SrcDupSame == DefSucc \o DefSucc \o OutNum(1)
\* a definition nested in the body of a definition of the same name
SrcDupNested ==
    <<Tok("Def"), TIdent("f"), TIdent("n")>> \o DefIdent
    \o <<Tok("Return"), TIdent("n"), Tok("End")>> \o OutNum(1)
DupSources == {SrcDupDifferent, SrcDupSame, SrcDupNested}

\* references to the name zz, which nothing binds: at top level, in a
\* function body, in the body of a nested definition; and a program whose
\* references are all bound
SrcUnboundTop == Let("x", 1) \o OutVar("zz")
SrcUnboundBody ==
    <<Tok("Def"), TIdent("f"), TIdent("a"), Tok("Return"), TIdent("zz"), Tok("End")>>
    \o OutNum(1)
SrcUnboundNested ==
    <<Tok("Def"), TIdent("f"), TIdent("a"),
      Tok("Def"), TIdent("g"), TIdent("b"), Tok("Return"), TIdent("zz"), Tok("End"),
      Tok("Return"), TIdent("a"), Tok("End")>> \o OutNum(1)
SrcBound == Let("x", 1) \o OutVar("x")
UnboundSources == {SrcUnboundTop, SrcUnboundBody, SrcUnboundNested, SrcBound}

\* a == b in expression positions
SrcEqOut == Let("a", 1) \o Let("b", 1) \o <<Tok("Out"), TIdent("a"), Tok("Eq"), TIdent("b")>>
SrcEqNumbers == <<Tok("Out"), TNumber(1), Tok("Eq"), TNumber(1)>>
SrcEqIf ==
    Let("a", 1) \o Let("b", 1) \o <<Tok("If"), TIdent("a"), Tok("Eq"), TIdent("b")>>
    \o OutNum(7) \o <<Tok("End")>>
EqSources == {SrcEqOut, SrcEqNumbers, SrcEqIf}

\* out 7 op1 2 op2 3 for the operators of the three upper precedence levels
LevelOps == {"Mul", "Mod", "Plus", "Minus", "Lt", "Le", "Gt", "Ge"}
SrcExpr(op1, op2) ==
    <<Tok("Out"), TNumber(7), Tok(op1), TNumber(2), Tok(op2), TNumber(3)>>
ExprSources == {SrcExpr(op1, op2) : op1 \in LevelOps, op2 \in LevelOps}

\* an identifier followed by what may be an argument, in an expression
\* (out H ARG) and at the head of a statement (H ARG); f is defined, g is a
\* variable:   def f n return n + 1 end  a = 1  g = 2  [out] H ARG
ApplyPrefix == DefSucc \o Let("a", 1) \o Let("g", 2)
ApplyHeads == {"f", "g"}
ApplyArgs == {<<TNumber(4)>>, <<TTyped(4, "I8")>>, <<TTyped(4, "I64")>>, <<TIdent("a")>>}
ArgThenAssign == <<TIdent("a"), Tok("Assign"), TNumber(5)>>
ArgMinus == <<Tok("Minus"), TNumber(1)>>
SrcApply(h, arg, atStmt) ==
    ApplyPrefix \o (IF atStmt THEN <<>> ELSE <<Tok("Out")>>) \o <<TIdent(h)>> \o arg
ApplySources ==
    {SrcApply(h, arg, atStmt) :
        h \in ApplyHeads, arg \in ApplyArgs \cup {ArgThenAssign}, atStmt \in BOOLEAN}
    \cup {SrcApply("f", ArgMinus, atStmt) : atStmt \in BOOLEAN}

\* the algebra's operands: around zero and at both ends of every fixed
\* width, the spec's 1000000i32, and BigInts around zero and beyond both
\* ends of i128
Near == 1
FixedWidths == {"I8", "I16", "I32", "I64", "I128"}
NearZero == {Big(k) : k \in (0 - Near)..Near}
MaxValue(t) == Norm(FALSE, MaxOf(t))
MinValue(t) == Norm(TRUE, MagAdd(MaxOf(t), <<1>>))
FixedOperands ==
    UNION {{IVal(t, n) : n \in NearZero \cup {MinValue(t), MaxValue(t)}} : t \in FixedWidths}
Million == IV("I32", 1000000)
AboveI128 == BigAdd(MaxValue("I128"), Big(1))
BelowI128 == BigSub(MinValue("I128"), Big(1))
BigOperands == {IVal("BigInt", n) : n \in NearZero \cup {AboveI128, BelowI128}}
AlgebraOperands == FixedOperands \cup {Million} \cup BigOperands

\* a plain literal of any size
TLiteral(b) == [k |-> "Number", name |-> "", v |-> LiteralOf(b)]

\* programs of one statement, out A OP B, on literals: with a value in the
\* algebra
SrcLit(a, op, b) == <<Tok("Out"), a, Tok(op), b>>
SrcLitSum == SrcLit(TNumber(2), "Plus", TNumber(3))
SrcLitMillion == SrcLit(TTyped(1000000, "I32"), "Mul", TTyped(1000000, "I32"))
SrcLitMixed == SrcLit(TTyped(7, "I8"), "Minus", TTyped(9, "I64"))
SrcLitLess == SrcLit(TNumber(5), "Lt", TNumber(3))
\* with an error in the algebra (also SrcOverflow)
SrcLitModZero == SrcLit(TNumber(7), "Mod", TNumber(0))
\* with a BigInt beyond i128 against a fixed width
SrcLitBigLess == SrcLit(TLiteral(AboveI128), "Lt", TNumber(1))
LitSources ==
    {SrcLitSum, SrcLitMillion, SrcLitMixed, SrcLitLess, SrcLitModZero, SrcLitBigLess}

\* a value passed to a function that prints and returns its parameter (the
\* body is too long to be inlined):
\*   def f n  out n out n out n out n  return n end   a = A OP B   out f a
DefEcho ==
    <<Tok("Def"), TIdent("f"), TIdent("n")>> \o OutVar("n") \o OutVar("n") \o OutVar("n")
    \o OutVar("n") \o <<Tok("Return"), TIdent("n"), Tok("End")>>
SrcPass(a, op, b) ==
    DefEcho \o <<TIdent("a"), Tok("Assign"), a, Tok(op), b>> \o <<Tok("Out"), TIdent("f"), TIdent("a")>>
SrcPassSmall == SrcPass(TNumber(2), "Plus", TNumber(3))
SrcPassNegative == SrcPass(TNumber(0), "Minus", TNumber(5))
AboveI64 == BigAdd(MaxValue("I64"), Big(1))
SrcPassWide == SrcPass(TLiteral(AboveI64), "Plus", TNumber(0))
\* a negative value returned:
\*   def f n  out n out n out n out n  return 0 - n end   out f 5
SrcReturnNegative ==
    <<Tok("Def"), TIdent("f"), TIdent("n")>> \o OutVar("n") \o OutVar("n") \o OutVar("n")
    \o OutVar("n") \o <<Tok("Return"), TNumber(0), Tok("Minus"), TIdent("n"), Tok("End")>>
    \o <<Tok("Out"), TIdent("f"), TNumber(5)>>
PassSources == {SrcPassSmall, SrcPassNegative, SrcPassWide, SrcReturnNegative}

\* a function that assigns to a name the caller also holds, called with a
\* value already on the caller's stack (the body is too long to be inlined):
\*   def f n  x = n + 1  out x out x out x  return x end
\*   x = 5   out x + f 7   out x
DefShadow ==
    <<Tok("Def"), TIdent("f"), TIdent("n"),
      TIdent("x"), Tok("Assign"), TIdent("n"), Tok("Plus"), TNumber(1)>>
    \o OutVar("x") \o OutVar("x") \o OutVar("x") \o <<Tok("Return"), TIdent("x"), Tok("End")>>
SrcShadow ==
    DefShadow \o Let("x", 5)
    \o <<Tok("Out"), TIdent("x"), Tok("Plus"), TIdent("f"), TNumber(7)>> \o OutVar("x")
FrameSources == {SrcShadow}

\* calls of g, which is defined inside an if or inside another definition:
\* the analyzer registers it, the compiler does not enter it in the function
\* table.
\*   x = 1  if x  def g b return b end  end   out 8   CALL   out 9
DefInner == <<Tok("Def"), TIdent("g"), TIdent("b"), Tok("Return"), TIdent("b"), Tok("End")>>
SrcMissing(call) ==
    Let("x", 1) \o <<Tok("If"), TIdent("x")>> \o DefInner \o <<Tok("End")>>
    \o OutNum(8) \o call \o OutNum(9)
SrcMissingCall == SrcMissing(<<Tok("Out"), TIdent("g"), TNumber(1)>>)
SrcMissingTailCall == SrcMissing(<<Tok("Return"), TIdent("g"), TNumber(1)>>)
\*   def f a  if a end  def g b return b end  out a out a out a  BODY end
\*   out 8   out f 1   out 9
SrcMissingIn(body) ==
    <<Tok("Def"), TIdent("f"), TIdent("a"), Tok("If"), TIdent("a"), Tok("End")>>
    \o DefInner \o OutVar("a") \o OutVar("a") \o OutVar("a") \o body \o <<Tok("End")>>
    \o OutNum(8) \o <<Tok("Out"), TIdent("f"), TNumber(1)>> \o OutNum(9)
SrcMissingInCall ==
    SrcMissingIn(<<TIdent("x"), Tok("Assign"), TIdent("g"), TIdent("a")>> \o OutVar("x")
                 \o <<Tok("Return"), TIdent("x")>>)
SrcMissingInTailCall == SrcMissingIn(<<Tok("Return"), TIdent("g"), TIdent("a")>>)
MissingSources ==
    {SrcMissingCall, SrcMissingTailCall, SrcMissingInCall, SrcMissingInTailCall}

\* a function of one parameter referred to without an argument:
\*   def f n return n + 1 end   out f
SrcBareReference == DefSucc \o OutVar("f")

\* an if with an empty body as the last statement, at top level and in a
\* function:   a = A  if a end      def f a if a end end  out 8
SrcIfLast(A) == Let("a", A) \o <<Tok("If"), TIdent("a"), Tok("End")>>
SrcIfLastInFunction ==
    <<Tok("Def"), TIdent("f"), TIdent("a"), Tok("If"), TIdent("a"), Tok("End"), Tok("End")>>
    \o OutNum(8)
IfLastSources == {SrcIfLast(0), SrcIfLast(1), SrcIfLastInFunction}

\* a token that starts no statement, `=` (or nothing, for comparison), in the
\* body of a def, of an if and of a while, and at top level:
\*   def f n  =  return n + 1 end  out f 4
\*   a = 1  if a  =  out 1 end  out 8
\*   i = 0  while i < 1  =  i += 1 end  out 8
\*   out 8  =  out 9
Stray == {<<>>, <<Tok("Assign")>>}
SrcStrayInDef(t) ==
    <<Tok("Def"), TIdent("f"), TIdent("n")>> \o t
    \o <<Tok("Return"), TIdent("n"), Tok("Plus"), TNumber(1), Tok("End"),
         Tok("Out"), TIdent("f"), TNumber(4)>>
SrcStrayInIf(t) ==
    Let("a", 1) \o <<Tok("If"), TIdent("a")>> \o t \o OutNum(1) \o <<Tok("End")>> \o OutNum(8)
SrcStrayInWhile(t) ==
    Let("i", 0) \o <<Tok("While"), TIdent("i"), Tok("Lt"), TNumber(1)>> \o t \o Incr("i")
    \o <<Tok("End")>> \o OutNum(8)
SrcStrayAtTop(t) == OutNum(8) \o t \o OutNum(9)
StraySources ==
    UNION {{SrcStrayInDef(t), SrcStrayInIf(t), SrcStrayInWhile(t), SrcStrayAtTop(t)} : t \in Stray}

\* a bare expression as a statement, and the same expression after out:
\*   a = 7   [out] HEAD op1 2 op2 3      with HEAD the variable a or 7
BareHeads == {TIdent("a"), TNumber(7)}
SecondOps == {"Mul", "Plus", "Lt"}
ExprTokens(head, op1, op2) == <<head, Tok(op1), TNumber(2), Tok(op2), TNumber(3)>>
SrcBare(e) == Let("a", 7) \o e
SrcOutOf(e) == Let("a", 7) \o <<Tok("Out")>> \o e
BareExprs ==
    {ExprTokens(head, op1, op2) : head \in BareHeads, op1 \in LevelOps, op2 \in SecondOps}
BareSources == {SrcBare(e) : e \in BareExprs}

\* a function defined before and after its use.  In the body of another
\* function, without arguments:
\*   def g return 5 end   def f return g + 1 end   out f
\*   def f return g + 1 end   def g return 5 end   out f
\* at top level, with an argument:
\*   def f n out n out n out n out n return n end   out f 4
\*   out f 4   def f n out n out n out n out n return n end
DefFive == <<Tok("Def"), TIdent("g"), Tok("Return"), TNumber(5), Tok("End")>>
DefFivePlusOne ==
    <<Tok("Def"), TIdent("f"), Tok("Return"), TIdent("g"), Tok("Plus"), TNumber(1), Tok("End")>>
SrcRefEarlier == DefFive \o DefFivePlusOne \o OutVar("f")
SrcRefLater == DefFivePlusOne \o DefFive \o OutVar("f")
SrcUseAfterDef == DefEcho \o <<Tok("Out"), TIdent("f"), TNumber(4)>>
SrcUseBeforeDef == <<Tok("Out"), TIdent("f"), TNumber(4)>> \o DefEcho
OrderSources == {SrcRefEarlier, SrcRefLater, SrcUseAfterDef, SrcUseBeforeDef}

\* functions that print their parameter three times, call H and return what
\* it returned; f has one parameter:
\*   def f n  out n out n out n  x = H n  return x end
\* called with N by a Call and by a top-level tail call, with H the function
\* itself and H a function defined after it; and with two parameters:
\*   def f a, b  out a out a out a  x = g a  return x end
MaxFib == 6
DefCalling(params, h) ==
    <<Tok("Def"), TIdent("f")>> \o params
    \o OutVar(params[1].name) \o OutVar(params[1].name) \o OutVar(params[1].name)
    \o <<TIdent("x"), Tok("Assign"), TIdent(h), TIdent(params[1].name),
         Tok("Return"), TIdent("x"), Tok("End")>>
DefSuccG ==
    <<Tok("Def"), TIdent("g"), TIdent("b"), Tok("Return"), TIdent("b"), Tok("Plus"),
      TNumber(1), Tok("End")>>
SrcSelfCall(N) == DefCalling(<<TIdent("n")>>, "f") \o <<Tok("Out"), TIdent("f"), TNumber(N)>>
SrcSelfCallTail(N) ==
    DefCalling(<<TIdent("n")>>, "f") \o <<Tok("Return"), TIdent("f"), TNumber(N)>>
SrcOtherCall(N) ==
    DefCalling(<<TIdent("n")>>, "g") \o DefSuccG \o <<Tok("Out"), TIdent("f"), TNumber(N)>>
SrcTwoParams ==
    DefCalling(<<TIdent("a"), Tok("Comma"), TIdent("b")>>, "g") \o DefSuccG
    \o <<Tok("Out"), TIdent("f"), TNumber(4), Tok("Comma"), TNumber(2)>>
FibSources ==
    {SrcSelfCall(N) : N \in 0..MaxFib} \cup {SrcSelfCallTail(N) : N \in 0..MaxFib}
    \cup {SrcOtherCall(N) : N \in 0..MaxFib} \cup {SrcTwoParams}

\* identifiers in expressions: a variable, the same variable twice, nine
\* variables in one expression (one more than there are registers), and a
\* function name between two variables:
\*   def s a, b, c, d, e, f, g, h, i return a + b + c + d + e + f + g + h + i end
\*   out 1
\*   x = 2   out x + x
\*   def g return 5 end   a = 1   out a + g + a
Letters == <<"a", "b", "c", "d", "e", "f", "g", "h", "i">>
RECURSIVE SumOf(_)
SumOf(k) ==
    IF k = 1 THEN <<TIdent(Letters[1])>>
    ELSE SumOf(k - 1) \o <<Tok("Plus"), TIdent(Letters[k])>>
RECURSIVE ListOf(_)
ListOf(k) ==
    IF k = 1 THEN <<TIdent(Letters[1])>>
    ELSE ListOf(k - 1) \o <<Tok("Comma"), TIdent(Letters[k])>>
SrcNineVariables ==
    <<Tok("Def"), TIdent("s")>> \o ListOf(9) \o <<Tok("Return")>> \o SumOf(9)
    \o <<Tok("End")>> \o OutNum(1)
SrcSameVariable ==
    Let("x", 2) \o <<Tok("Out"), TIdent("x"), Tok("Plus"), TIdent("x")>>
SrcFunctionBetween ==
    DefFive \o Let("a", 1)
    \o <<Tok("Out"), TIdent("a"), Tok("Plus"), TIdent("g"), Tok("Plus"), TIdent("a")>>
IdentSources ==
    {SrcBound, SrcNineVariables, SrcSameVariable, SrcFunctionBetween,
     SrcBareReference, SrcRefEarlier, SrcRefLater}

\* loops whose body holds a statement that is neither an assignment nor an
\* out statement:  i = 0  while i < 2 [out i] NESTED i += 1 end  out 9
NestedIf == <<Tok("If"), TIdent("i")>> \o OutNum(5) \o <<Tok("End")>>
NestedWhile == <<Tok("While"), TNumber(0)>> \o OutNum(6) \o <<Tok("End")>>
NestedReturn == <<Tok("Return"), TNumber(7)>>
NestedDef == <<Tok("Def"), TIdent("g"), Tok("Return"), TNumber(1), Tok("End")>>
NestedInLoop == {NestedIf, NestedWhile, NestedReturn, NestedDef}
SrcNestedLoop(nested) == SrcLoop(2, nested \o Incr("i")) \o OutNum(9)
SrcOutThenNested(nested) == SrcLoop(2, OutVar("i") \o nested \o Incr("i")) \o OutNum(9)
\* the same in the body of a function that is called:
\*   def f n  i = 0  while i < n if i out 5 end i += 1 end  return i end  out f 2
SrcNestedInFunction ==
    <<Tok("Def"), TIdent("f"), TIdent("n")>> \o Let("i", 0)
    \o <<Tok("While"), TIdent("i"), Tok("Lt"), TIdent("n")>> \o NestedIf \o Incr("i")
    \o <<Tok("End"), Tok("Return"), TIdent("i"), Tok("End"),
         Tok("Out"), TIdent("f"), TNumber(2)>>
NestedLoopSources ==
    {SrcNestedInFunction}
    \cup {SrcNestedLoop(nested) : nested \in NestedInLoop}
    \cup {SrcOutThenNested(nested) : nested \in NestedInLoop}

\* a variable assigned only in a body that does not run, then read:
\*   a = 0  if a  x = 1 end  out x      and      while 0  x = 1 end  out x
SrcAssignedInSkippedIf ==
    Let("a", 0) \o <<Tok("If"), TIdent("a")>> \o Let("x", 1) \o <<Tok("End")>> \o OutVar("x")
SrcAssignedInSkippedLoop ==
    <<Tok("While"), TNumber(0)>> \o Let("x", 1) \o <<Tok("End")>> \o OutVar("x")
\* the same with the body run:  a = 1  if a  x = 1 end  out x
SrcAssignedInTakenIf ==
    Let("a", 1) \o <<Tok("If"), TIdent("a")>> \o Let("x", 1) \o <<Tok("End")>> \o OutVar("x")
SkippedSources == {SrcAssignedInSkippedIf, SrcAssignedInSkippedLoop, SrcAssignedInTakenIf}

\* a function that calls itself in an expression, and one that names itself:
\*   def f n return 1 + f n end  out 2      def f n return f + n end  out 2
SrcSelfInExpr ==
    <<Tok("Def"), TIdent("f"), TIdent("n"), Tok("Return"), TNumber(1), Tok("Plus"),
      TIdent("f"), TIdent("n"), Tok("End")>> \o OutNum(2)
SrcSelfNamed ==
    <<Tok("Def"), TIdent("f"), TIdent("n"), Tok("Return"), TIdent("f"), Tok("Plus"),
      TIdent("n"), Tok("End")>> \o OutNum(2)
SelfSources == {SrcSelfInExpr, SrcSelfNamed}

Sources ==
    {SrcCall, SrcCallThen, SrcOverflow, SrcOverflowThen, SrcPrecedence,
     SrcOutInCall, SrcOutInTailCall}
    \cup TailChainSources \cup IfSources \cup WhileSources \cup DupSources
    \cup UnboundSources \cup EqSources \cup ExprSources \cup ApplySources
    \cup LitSources \cup PassSources \cup FrameSources
    \cup MissingSources \cup {SrcBareReference}
    \cup IfLastSources \cup StraySources \cup BareSources
    \cup OrderSources \cup FibSources \cup IdentSources \cup NestedLoopSources \cup SkippedSources \cup SelfSources

(***************************************************************************)
(* main.rs : the pipeline, and the steps of the virtual machine             *)
(***************************************************************************)
\* no operation applied yet
NewCalc(a, b) == [a |-> a, b |-> b, op |-> "", r |-> Err(NoText), ord |-> ""]
NoCalc == NewCalc(IV("I8", 0), IV("I8", 0))

\* IncrementalCompiler::new, no call made yet
NewCompiler ==
    [cache |-> EmptyMap, name |-> "", params |-> <<>>, body |-> <<>>,
     functions |-> EmptyMap, returned |-> CompiledFunction(<<>>, <<>>)]

\* the pipeline, the algebra and the compiler before they start
\* no function body under analysis
NoAnalysis == [shared |-> {}, workers |-> <<>>]

\* LRUCache::new
NewCache(capacity) == [capacity |-> capacity, cache |-> EmptyMap, lru |-> <<>>]

Untouched ==
    /\ incremental = NewCompiler
    /\ analysis = NoAnalysis
    /\ parser_pos = 0
    /\ ast = <<>>
    /\ warnings = <<>>
    /\ program = BytecodeProgram(<<>>, EmptyMap, EmptyMap, EmptyMap)
    /\ frames = <<>>
    /\ output = <<>>
    /\ stdout = <<>>
    /\ stderr = <<>>
    /\ executed = <<>>
    /\ result = NoResult

Idle ==
    /\ Untouched
    /\ source = <<>>
    /\ lru_cache = NewCache(1)
    /\ phase = "lexed"

Init ==
    /\ tokens \in Sources
    /\ calc = NoCalc
    /\ Idle

\* parser::parse
Parsed(r) ==
    /\ ast' = r.statements
    /\ warnings' = r.warns

Parse ==
    /\ phase = "lexed"
    /\ phase' = "parsed"
    /\ Parsed(parse(tokens))
    /\ UNCHANGED <<parser_pos, source, analysis, lru_cache, incremental, calc, tokens, program, frames, output, stdout, stderr, executed, result>>

Analyzed(r) ==
    /\ phase' = IF r.ok THEN "analyzed" ELSE "failed"
    /\ result' = IF r.ok THEN result ELSE ErrU64(r.err)

\* semantic::analyze: an Err ends the run
Analyze ==
    /\ phase = "parsed"
    /\ Analyzed(analyze(ast))
    /\ UNCHANGED <<parser_pos, source, analysis, lru_cache, incremental, calc, tokens, ast, warnings, program, frames, output, stdout, stderr, executed>>

\* some constant folding of the compilation panicked
HasPanic(code) == \E i \in 1..Len(code) : code[i].op = "Panic"
Panicked(p) ==
    \/ HasPanic(p.instructions)
    \/ \E f \in DOMAIN p.functions : HasPanic(p.functions[f].code)
    \/ \E f \in DOMAIN p.compiled_functions : HasPanic(p.compiled_functions[f].instructions)

Compiled(p) ==
    IF Panicked(p)
    THEN /\ phase' = "aborted"
         /\ program' = program
         /\ frames' = <<>>
    ELSE /\ phase' = "running"
         /\ program' = p
         /\ frames' = <<Frame(p.instructions, EmptyMap, "top")>>

\* compile_to_bytecode, and the interpreter execute_bytecode constructs
Compile ==
    /\ phase = "analyzed"
    /\ Compiled(compile_to_bytecode(ast))
    /\ UNCHANGED <<parser_pos, source, analysis, lru_cache, incremental, calc, tokens, ast, warnings, output, stdout, stderr, executed, result>>

ExecLoadStore ==
    /\ AtInstr
    /\ CurInstr.op \in LoadStoreOps
    /\ Goto(Running(WithCur(StepLoadStore(Advanced, CurInstr))))
    /\ UNCHANGED <<parser_pos, source, analysis, lru_cache, incremental, calc, tokens, ast, warnings, program, output, stdout, stderr, executed>>

ExecBinary ==
    /\ AtInstr
    /\ CurInstr.op \in BinaryOps
    /\ Goto(IF BinaryPanics(Cur, CurInstr) THEN Aborted
            ELSE Running(WithCur(StepBinary(Advanced, CurInstr))))
    /\ stderr' = IF InExecute THEN stderr \o ArithWarning(Cur, CurInstr) ELSE stderr
    /\ UNCHANGED <<parser_pos, source, analysis, lru_cache, incremental, calc, tokens, ast, warnings, program, output, stdout, executed>>

ExecJump ==
    /\ AtInstr
    /\ CurInstr.op = "Jump"
    /\ Goto(Running(WithCur([Advanced EXCEPT !.pc = JumpTarget(@, CurInstr.n)])))
    /\ UNCHANGED <<parser_pos, source, analysis, lru_cache, incremental, calc, tokens, ast, warnings, program, output, stdout, stderr, executed>>

ExecJumpIfFalse ==
    /\ AtInstr
    /\ CurInstr.op = "JumpIfFalse"
    /\ Goto(Running(WithCur(
          [Advanced EXCEPT !.stack = Pop(@),
                           !.pc = IF IsFalse(Top(Cur.stack))
                                  THEN JumpTarget(@, CurInstr.n) ELSE @])))
    /\ UNCHANGED <<parser_pos, source, analysis, lru_cache, incremental, calc, tokens, ast, warnings, program, output, stdout, stderr, executed>>

ExecCall ==
    /\ AtInstr
    /\ CurInstr.op = "Call"
    /\ Goto(Invoke(CurInstr))
    /\ UNCHANGED <<parser_pos, source, analysis, lru_cache, incremental, calc, tokens, ast, warnings, program, output, stdout, stderr, executed>>

ExecTailCall ==
    /\ AtInstr
    /\ CurInstr.op = "TailCall"
    /\ Goto(Invoke(CurInstr))
    /\ UNCHANGED <<parser_pos, source, analysis, lru_cache, incremental, calc, tokens, ast, warnings, program, output, stdout, stderr, executed>>

\* the Return arm, and the fall off the end of the instructions: the top
\* of the stack (zero if empty) is the activation's result
ExecReturn ==
    /\ phase = "running"
    /\ IF Cur.pc < Len(Cur.code) THEN CurInstr.op = "Return" ELSE TRUE
    /\ Goto(ReturnTo(Front(frames), ValueToU64(Top(Cur.stack)), Cur.via))
    /\ UNCHANGED <<parser_pos, source, analysis, lru_cache, incremental, calc, tokens, ast, warnings, program, output, stdout, stderr, executed>>

\* the Out arm: execute appends the text to self.output, execute_function
\* prints it
ExecOut ==
    /\ AtInstr
    /\ CurInstr.op = "Out"
    /\ Goto(Running(WithCur([Advanced EXCEPT !.stack = Pop(@)])))
    /\ executed' = Append(executed, to_string(Top(Cur.stack)))
    /\ output' = IF InExecute THEN Append(output, to_string(Top(Cur.stack))) ELSE output
    /\ stdout' = IF InExecute THEN stdout ELSE Append(stdout, to_string(Top(Cur.stack)))
    /\ UNCHANGED <<parser_pos, source, analysis, lru_cache, incremental, calc, tokens, ast, warnings, program, stderr>>

Next ==
    \/ Parse
    \/ Analyze
    \/ Compile
    \/ ExecLoadStore
    \/ ExecBinary
    \/ ExecJump
    \/ ExecJumpIfFalse
    \/ ExecCall
    \/ ExecTailCall
    \/ ExecReturn
    \/ ExecOut

Spec == Init /\ [][Next]_vars

(***************************************************************************)
(* types.rs : the integer algebra applied to a pair of operands            *)
(***************************************************************************)
AlgebraInit ==
    /\ tokens = <<>>
    /\ Idle
    /\ calc \in {NewCalc(a, b) : a \in AlgebraOperands, b \in AlgebraOperands}

Applied(op, r) ==
    /\ calc.op = ""
    /\ calc' = [calc EXCEPT !.op = op, !.r = r]
    /\ UNCHANGED <<parser_pos, source, analysis, lru_cache, incremental, tokens, phase, ast, warnings, program, frames, output, stdout, stderr,
                   executed, result>>

\* a + b, a - b, a * b, a / b, a % b
ApplyAdd == Applied("Add", IntAdd(calc.a, calc.b))
ApplySub == Applied("Sub", IntSub(calc.a, calc.b))
ApplyMul == Applied("Mul", IntMul(calc.a, calc.b))
ApplyDiv == Applied("Div", IntDiv(calc.a, calc.b))
ApplyRem == Applied("Rem", IntRem(calc.a, calc.b))

\* the Eq arm of the virtual machine, and `==` folded at compile time: both
\* are "if a == b { 1 } else { 0 }"
ApplyEq == Applied("Eq", ApplyBinOp("Eq", calc.a, calc.b))
ApplyFoldedEq == Applied("FoldedEq", ConstBinOp("Eq", Ok(calc.a), Ok(calc.b)))

\* a.cmp(&b)
ApplyCmp ==
    /\ calc.op = ""
    /\ calc' = [calc EXCEPT !.op = "Cmp", !.ord = IntCmp(calc.a, calc.b)]
    /\ UNCHANGED <<parser_pos, source, analysis, lru_cache, incremental, tokens, phase, ast, warnings, program, frames, output, stdout, stderr,
                   executed, result>>

AlgebraNext ==
    \/ ApplyAdd
    \/ ApplySub
    \/ ApplyMul
    \/ ApplyDiv
    \/ ApplyRem
    \/ ApplyCmp
    \/ ApplyEq
    \/ ApplyFoldedEq

AlgebraSpec == AlgebraInit /\ [][AlgebraNext]_vars

(***************************************************************************)
(* bytecode.rs : IncrementalCompiler::compile_function called in sequence  *)
(***************************************************************************)
\* the definitions the compiler is handed: two names, two parameter lists,
\* two bodies (one refers to g), and two function tables (one holds g)
CacheNames == {"f", "h"}
CacheParams == {<<"n">>, <<"a", "b">>}
BodySuccOfG == <<Return(BinOp(Ident("g"), "Plus", Number(IV("I8", 1))))>>
BodyOutOne == <<Out(Number(IV("I8", 1)))>>
CacheBodies == {BodySuccOfG, BodyOutOne}
TableOfG ==
    MapInsert(EmptyMap, "g", [params |-> <<>>, code |-> <<LoadConst(IV("I8", 5)), Plain("Return")>>])
CacheTables == {EmptyMap, TableOfG}

CacheInit ==
    /\ tokens = <<>>
    /\ Idle
    /\ calc = NoCalc

\* compile_function has returned r
Returned(name, params, body, functions, r) ==
    /\ incremental' = [cache |-> r.cache, name |-> name, params |-> params, body |-> body,
                       functions |-> functions, returned |-> r.func]
    /\ UNCHANGED <<parser_pos, source, analysis, lru_cache, calc, tokens, phase, ast, warnings, program, frames, output, stdout,
                   stderr, executed, result>>

\* one call of compile_function
CompileFunction ==
    \E name \in CacheNames, params \in CacheParams, body \in CacheBodies,
       functions \in CacheTables :
        Returned(name, params, body, functions,
                 compile_function(incremental.cache, name, params, body, functions))

CacheNext == CompileFunction

CacheSpec == CacheInit /\ [][CacheNext]_vars

(***************************************************************************)
(* semantic.rs : the function bodies analysed in parallel                  *)
(***************************************************************************)
\* programs with two and three function bodies: a definition nested in one
\* body and a reference to its name in another; the same name defined in two
\* bodies; an unbound name in each of two bodies; a variable assigned in one
\* body and read in another; three bodies that are accepted
\*   def f a  def inner b return b end  return a end  def g c return inner end  out 1
\*   def f a  def h b return b end  return a end  def g c  def h d return d end  return c end  out 1
\*   def f a return y end  def g b return z end  out 1
\*   def f a  x = a  return x end  def g b return x end  out 1
\*   def f a  x = a  return x end  def g b  y = b  return y end  def h c  z = c  return z end  out 1
\*   (and with `return q` in g)
\*   def f a  def p b return b end  x = a  return p end
\*   def g c  def p d return d end  x = c  return x end
\*   def h e  p = e  return p end  out 1
DefOf(name, param, body) ==
    <<Tok("Def"), TIdent(name), TIdent(param)>> \o body \o <<Tok("End")>>
ReturnVar(name) == <<Tok("Return"), TIdent(name)>>
Copy(name, from) == <<TIdent(name), Tok("Assign"), TIdent(from)>>
SrcNestedElsewhere ==
    DefOf("f", "a", DefOf("inner", "b", ReturnVar("b")) \o ReturnVar("a"))
    \o DefOf("g", "c", ReturnVar("inner")) \o OutNum(1)
SrcNestedTwice ==
    DefOf("f", "a", DefOf("h", "b", ReturnVar("b")) \o ReturnVar("a"))
    \o DefOf("g", "c", DefOf("h", "d", ReturnVar("d")) \o ReturnVar("c")) \o OutNum(1)
SrcBothUnbound ==
    DefOf("f", "a", ReturnVar("y")) \o DefOf("g", "b", ReturnVar("z")) \o OutNum(1)
SrcVariableElsewhere ==
    DefOf("f", "a", Copy("x", "a") \o ReturnVar("x"))
    \o DefOf("g", "b", ReturnVar("x")) \o OutNum(1)
SrcThreeBodies ==
    DefOf("f", "a", Copy("x", "a") \o ReturnVar("x"))
    \o DefOf("g", "b", Copy("y", "b") \o ReturnVar("y"))
    \o DefOf("h", "c", Copy("z", "c") \o ReturnVar("z")) \o OutNum(1)
SrcMiddleUnbound ==
    DefOf("f", "a", Copy("x", "a") \o ReturnVar("x"))
    \o DefOf("g", "b", Copy("y", "b") \o ReturnVar("q"))
    \o DefOf("h", "c", Copy("z", "c") \o ReturnVar("z")) \o OutNum(1)
SrcThreeNested ==
    DefOf("f", "a", DefOf("p", "b", ReturnVar("b")) \o Copy("x", "a") \o ReturnVar("p"))
    \o DefOf("g", "c", DefOf("p", "d", ReturnVar("d")) \o Copy("x", "c") \o ReturnVar("x"))
    \o DefOf("h", "e", Copy("p", "e") \o ReturnVar("p")) \o OutNum(1)
ParallelSources ==
    {SrcNestedElsewhere, SrcNestedTwice, SrcBothUnbound, SrcVariableElsewhere,
     SrcThreeBodies, SrcMiddleUnbound, SrcThreeNested, SrcRefLater, SrcCall}

ParallelInit ==
    /\ tokens \in ParallelSources
    /\ calc = NoCalc
    /\ Idle

\* the closure of one function body: its local_analyzer (own says whether
\* its functions field still points to the shared table or to a copy of its
\* own), the statement it is at, and its result once it has returned
NewWorker(def) ==
    [params |-> def.params, body |-> def.body, i |-> 1,
     own |-> FALSE, functions |-> {},
     variables |-> {def.params[i] : i \in 1..Len(def.params)}, cache |-> {},
     done |-> Len(def.body) = 0, ok |-> TRUE, err |-> NoText]

\* the first pass and the collection of the bodies, up to par_iter
StartAnalysis ==
    /\ phase = "parsed"
    /\ phase' = "analyzing"
    /\ analysis' = [shared |-> RegisterAll(ast),
                    workers |-> [k \in 1..Len(SelectSeq(ast, IsFuncDef)) |->
                                    NewWorker(SelectSeq(ast, IsFuncDef)[k])]]
    /\ UNCHANGED <<parser_pos, source, lru_cache, incremental, calc, tokens, ast, warnings, program,
                   frames, output, stdout, stderr, executed, result>>

\* the Arc pointers to the shared table: self.functions, functions_clone,
\* and the local_analyzer of every running closure that has not made a copy
Strong ==
    2 + Cardinality({k \in 1..Len(analysis.workers) :
                        ~analysis.workers[k].done /\ ~analysis.workers[k].own})

\* (a variant that writes through the pointer whatever the count)
make_mut_in_place(strong) == FALSE

\* Arc::make_mut in analyze_func_def: the table is copied first when other
\* pointers to it exist
make_mut_clones(strong) == strong > 1

\* the function table a closure reads
View(w) == IF w.own THEN w.functions ELSE analysis.shared

\* the closure of body k has analysed its next statement: r is the result,
\* copies says whether a registration in it copied the shared table
Stepped(k, w, r, copies) ==
    analysis' =
        [shared |-> IF r.st.functions # View(w) /\ ~w.own /\ ~copies
                    THEN r.st.functions ELSE analysis.shared,
         workers |-> [analysis.workers EXCEPT ![k] =
            [w EXCEPT !.own = w.own \/ copies,
                      !.functions = IF w.own \/ copies THEN r.st.functions ELSE {},
                      !.variables = r.st.variables,
                      !.cache = r.st.cache,
                      !.i = w.i + 1,
                      !.done = ~r.ok \/ w.i + 1 > Len(w.body),
                      !.ok = r.ok,
                      !.err = r.err]]]

Registers(w, r) == r.st.functions # View(w) /\ ~w.own

\* one statement of one body: any closure that has not returned may go next
WorkerStep ==
    /\ phase = "analyzing"
    /\ \E k \in 1..Len(analysis.workers) :
          /\ ~analysis.workers[k].done
          /\ Stepped(k, analysis.workers[k],
                     analyze_stmt(Analyzer(View(analysis.workers[k]),
                                           analysis.workers[k].variables,
                                           analysis.workers[k].cache),
                                  analysis.workers[k].body[analysis.workers[k].i]),
                     Registers(analysis.workers[k],
                               analyze_stmt(Analyzer(View(analysis.workers[k]),
                                                     analysis.workers[k].variables,
                                                     analysis.workers[k].cache),
                                            analysis.workers[k].body[analysis.workers[k].i]))
                       /\ make_mut_clones(Strong))
    /\ UNCHANGED <<parser_pos, source, lru_cache, incremental, calc, tokens, phase, ast, warnings,
                   program, frames, output, stdout, stderr, executed, result>>

\* the Result a closure returned
ResultOf(w) ==
    IF w.ok THEN AOk(Analyzer(View(w), w.variables, w.cache))
    ELSE AErr(w.err, Analyzer(View(w), w.variables, w.cache))

\* collect(), "result?" for every body in source order, then the statements
\* that are not definitions
Collect ==
    /\ phase = "analyzing"
    /\ \A k \in 1..Len(analysis.workers) : analysis.workers[k].done
    /\ Analyzed(AnalysisResult(
          TopLevelAfter(FirstError([k \in 1..Len(analysis.workers) |->
                                        ResultOf(analysis.workers[k])], 1),
                        analysis.shared, SelectSeq(ast, NotFuncDef))))
    /\ UNCHANGED <<parser_pos, source, analysis, lru_cache, incremental, calc, tokens, ast, warnings,
                   program, frames, output, stdout, stderr, executed>>

ParallelNext ==
    \/ Parse
    \/ StartAnalysis
    \/ WorkerStep
    \/ Collect

ParallelSpec == ParallelInit /\ [][ParallelNext]_vars

(***************************************************************************)
(* types.rs : from_string and cast_to applied to one value and one width   *)
(***************************************************************************)
\* the values at and next to both ends of every fixed width, and around
\* zero, in every width that holds them; the target width is that of calc.b
Ends(t) ==
    {MinValue(t), BigSub(MinValue(t), Big(1)), MaxValue(t), BigAdd(MaxValue(t), Big(1))}
EndValues == NearZero \cup UNION {Ends(t) : t \in FixedWidths}
Widths == {IntegerType[i] : i \in 1..Len(IntegerType)}
ValuesOf(t) == {n \in EndValues : InRange(t, n)}
CastOperands == UNION {{IVal(t, n) : n \in ValuesOf(t)} : t \in Widths}
CastTargets == {IV(t, 0) : t \in Widths}

ConversionInit ==
    /\ tokens = <<>>
    /\ Idle
    /\ calc \in {NewCalc(a, b) : a \in CastOperands, b \in CastTargets}

\* the texts that denote the value of a: its Display, and the numeral with a
\* leading zero or a plus sign when it is not negative
Numerals(a) ==
    {to_string(a)}
    \cup (IF a.v.neg THEN {} ELSE {<<"0">> \o to_string(a), <<"+">> \o to_string(a)})

\* a.cast_to(&W)
ApplyCast == Applied("Cast", cast_to(calc.a, get_type(calc.b)))

\* a.cast_to(&W)?.cast_to(&a.get_type())
Back(there, target) == IF there.ok THEN cast_to(there.val, target) ELSE there
ApplyCastBack ==
    Applied("CastBack", Back(cast_to(calc.a, get_type(calc.b)), get_type(calc.a)))

\* IntegerValue::from_string(s, W)
ApplyFromString ==
    \E s \in Numerals(calc.a) : Applied("FromString", from_string(s, get_type(calc.b)))

ConversionNext ==
    \/ ApplyCast
    \/ ApplyCastBack
    \/ ApplyFromString

ConversionSpec == ConversionInit /\ [][ConversionNext]_vars

(***************************************************************************)
(* cache.rs : LRUCache                                                     *)
(***************************************************************************)
\* the keys and the values of the calls, the capacities of the caches, and
\* the caps that keep the queue and the access counts finite
CacheKeys == {"a", "b", "c"}
CacheValues == {1, 2}
MaxCapacity == 2
MaxQueue == 4
MaxAccess == 2

\* a CacheItem (the timestamp plays no part)
CacheItem(value, access_count) == [value |-> value, access_count |-> access_count]

\* VecDeque::retain(|k| k != key)
Retain(lru, key) == SelectSeq(lru, LAMBDA k : k # key)

\* HashMap::remove
MapRemove(m, key) == [k \in DOMAIN m \ {key} |-> m[k]]

\* Cache::get for LRUCache, for a key that is stored
get(c, key) ==
    [c EXCEPT !.cache[key].access_count = @ + 1,
              !.lru = Append(Retain(c.lru, key), key)]

\* the first half of Cache::put: with the cache full, the key at the front
\* of the queue is popped and removed from the map
Evicted(c) ==
    IF Cardinality(DOMAIN c.cache) >= c.capacity /\ Len(c.lru) > 0
    THEN [c EXCEPT !.cache = MapRemove(@, Head(c.lru)), !.lru = Tail(@)]
    ELSE c

\* the second half: the item is inserted and the key pushed at the back
Inserted(c, key, value) ==
    [c EXCEPT !.cache = MapInsert(@, key, CacheItem(value, 1)),
              !.lru = Append(@, key)]

\* Cache::put
put(c, key, value) == Inserted(Evicted(c), key, value)

\* Cache::remove
remove(c, key) == [c EXCEPT !.cache = MapRemove(@, key), !.lru = Retain(@, key)]

\* Cache::clear
clear(c) == [c EXCEPT !.cache = EmptyMap, !.lru = <<>>]

LRUInit ==
    /\ Untouched
    /\ source = <<>>
    /\ tokens = <<>>
    /\ calc = NoCalc
    /\ phase = "lexed"
    /\ lru_cache \in {NewCache(capacity) : capacity \in 1..MaxCapacity}

Others ==
    UNCHANGED <<parser_pos, source, analysis, incremental, calc, tokens, phase, ast, warnings, program, frames, output, stdout, stderr, executed, result>>

Get ==
    /\ \E key \in DOMAIN lru_cache.cache :
          /\ lru_cache.cache[key].access_count < MaxAccess
          /\ lru_cache' = get(lru_cache, key)
    /\ Others

Put ==
    /\ Len(lru_cache.lru) < MaxQueue
    /\ \E key \in CacheKeys, value \in CacheValues : lru_cache' = put(lru_cache, key, value)
    /\ Others

Remove ==
    /\ \E key \in CacheKeys : lru_cache' = remove(lru_cache, key)
    /\ Others

Clear ==
    /\ lru_cache' = clear(lru_cache)
    /\ Others

LRUNext == Get \/ Put \/ Remove \/ Clear

LRUSpec == LRUInit /\ [][LRUNext]_vars

(***************************************************************************)
(* lexer.rs : tokenize                                                     *)
(***************************************************************************)
\* the source text is a sequence of characters; positions count from 1 here
\* and from 0 in the error message
LowerCase ==
    {"a", "b", "c", "d", "e", "f", "g", "h", "i", "j", "k", "l", "m",
     "n", "o", "p", "q", "r", "s", "t", "u", "v", "w", "x", "y", "z"}
UpperCase ==
    {"A", "B", "C", "D", "E", "F", "G", "H", "I", "J", "K", "L", "M",
     "N", "O", "P", "Q", "R", "S", "T", "U", "V", "W", "X", "Y", "Z"}
DigitChars == {DigitChar[i] : i \in 1..Len(DigitChar)}
IdentStart == LowerCase \cup UpperCase \cup {"_"}
IdentChars == IdentStart \cup DigitChars
Spaces == {" ", "\t", "\n"}

\* the end of the longest run of characters of a class that starts at p:
\* the position after its last character
RECURSIVE RunEnd(_, _, _)
RunEnd(text, p, class) ==
    IF p <= Len(text) /\ text[p] \in class THEN RunEnd(text, p + 1, class) ELSE p

\* `.*` of the comment pattern: up to the end of the line
RECURSIVE LineEnd(_, _)
LineEnd(text, p) ==
    IF p <= Len(text) /\ text[p] # "\n" THEN LineEnd(text, p + 1) ELSE p

\* the text has the word at position p
HasAt(text, p, word) ==
    /\ p + Len(word) - 1 <= Len(text)
    /\ SubSeq(text, p, p + Len(word) - 1) = word

\* the suffixes of the width-suffixed literals
Suffix(t) ==
    CASE t = "I8" -> <<"i", "8">>
      [] t = "I16" -> <<"i", "1", "6">>
      [] t = "I32" -> <<"i", "3", "2">>
      [] t = "I64" -> <<"i", "6", "4">>
      [] t = "I128" -> <<"i", "1", "2", "8">>
      [] OTHER -> <<"b", "i", "g", "i", "n", "t">>
SuffixesAt(text, q) == {t \in Widths : HasAt(text, q, Suffix(t))}

\* the keywords, and the operators of two characters and of one
Keyword(word) ==
    CASE word = <<"d", "e", "f">> -> "Def"
      [] word = <<"i", "f">> -> "If"
      [] word = <<"w", "h", "i", "l", "e">> -> "While"
      [] word = <<"r", "e", "t", "u", "r", "n">> -> "Return"
      [] word = <<"e", "n", "d">> -> "End"
      [] word = <<"o", "u", "t">> -> "Out"
      [] OTHER -> "Ident"
Operator2(word) ==
    CASE word = <<"+", "=">> -> "PlusAssign"
      [] word = <<"-", "=">> -> "MinusAssign"
      [] word = <<"*", "=">> -> "MulAssign"
      [] word = <<"%", "=">> -> "ModAssign"
      [] word = <<"<", "=">> -> "Le"
      [] word = <<">", "=">> -> "Ge"
      [] word = <<"=", "=">> -> "Eq"
      [] OTHER -> ""
Operator1(c) ==
    CASE c = "=" -> "Assign"
      [] c = "+" -> "Plus"
      [] c = "-" -> "Minus"
      [] c = "*" -> "Mul"
      [] c = "%" -> "Mod"
      [] c = "<" -> "Lt"
      [] c = ">" -> "Gt"
      [] c = "," -> "Comma"
      [] OTHER -> ""

\* lex.slice().to_string()
RECURSIVE Joined(_)
Joined(word) == IF Len(word) = 0 THEN "" ELSE word[1] \o Joined(Tail(word))

\* Result<Vec<Token>, String>, and a panic in a callback
LexOk(toks) == [ok |-> TRUE, tokens |-> toks, err |-> NoText, panic |-> FALSE]
LexErr(msg) == [ok |-> FALSE, tokens |-> <<>>, err |-> msg, panic |-> FALSE]
LexPanic == [ok |-> FALSE, tokens |-> <<>>, err |-> NoText, panic |-> TRUE]

\* the callback of `[0-9]+`: the narrowest width that parses the digits
NumberToken(digits) == [k |-> "Number", name |-> "", v |-> LiteralOf(TextValue(digits))]

\* the callbacks of `[0-9]+i8` .. `[0-9]+bigint`: the digits are parsed in
\* the width of the suffix and the Result is unwrapped
TypedUnwrap(parsed) == parsed.ok
TypedToken(t, parsed) == [k |-> TypedKind(t), name |-> "", v |-> parsed.val]

\* an identifier or a keyword
WordToken(word) ==
    IF Keyword(word) = "Ident" THEN TIdent(Joined(word)) ELSE Tok(Keyword(word))

RECURSIVE LexFrom(_, _, _)

\* a literal: digits from p up to q, with the suffix of width t or with none
TypedAt(text, p, q, t, parsed, toks) ==
    IF TypedUnwrap(parsed)
    THEN LexFrom(text, q + Len(Suffix(t)), Append(toks, TypedToken(t, parsed)))
    ELSE LexPanic
LiteralAt(text, p, q, suffixes, toks) ==
    IF suffixes = {}
    THEN LexFrom(text, q, Append(toks, NumberToken(SubSeq(text, p, q - 1))))
    ELSE TypedAt(text, p, q, CHOOSE t \in suffixes : TRUE,
                 from_string(SubSeq(text, p, q - 1), CHOOSE t \in suffixes : TRUE), toks)

\* Token::lexer(code) driven by the loop of tokenize: the longest match at
\* position p, or the error for a character no pattern starts with
LexFrom(text, p, toks) ==
    IF p > Len(text) THEN LexOk(toks)
    ELSE IF text[p] \in Spaces THEN LexFrom(text, RunEnd(text, p, Spaces), toks)
    ELSE IF HasAt(text, p, <<"/", "/">>) THEN LexFrom(text, LineEnd(text, p), toks)
    ELSE IF text[p] \in DigitChars
    THEN LiteralAt(text, p, RunEnd(text, p, DigitChars),
                   SuffixesAt(text, RunEnd(text, p, DigitChars)), toks)
    ELSE IF text[p] \in IdentStart
    THEN LexFrom(text, RunEnd(text, p, IdentChars),
                 Append(toks, WordToken(SubSeq(text, p, RunEnd(text, p, IdentChars) - 1))))
    ELSE IF p < Len(text) /\ Operator2(SubSeq(text, p, p + 1)) # ""
    THEN LexFrom(text, p + 2, Append(toks, Tok(Operator2(SubSeq(text, p, p + 1)))))
    ELSE IF Operator1(text[p]) # ""
    THEN LexFrom(text, p + 1, Append(toks, Tok(Operator1(text[p]))))
    ELSE LexErr(<<"Unexpected character: '", text[p], "' at position ">> \o Decimal(p - 1))

\* lexer::tokenize
tokenize(text) == LexFrom(text, 1, <<>>)

\* the sources handed to tokenize: a numeral at and next to the end of every
\* width, followed by a width suffix, by nothing or by other characters; and
\* short texts with words, operators, a comment and a character no token
\* starts with
MagText(m) == [i \in 1..Len(m) |-> DigitChar[m[i] + 1]]
LexNumerals ==
    {<<"0">>, <<"7">>, <<"0", "0", "7">>, <<"2", "0", "0">>}
    \cup {MagText(MaxOf(t)) : t \in Widths \ {"BigInt"}}
    \cup {MagText(MagAdd(MaxOf(t), <<1>>)) : t \in Widths \ {"BigInt"}}
LexEndings ==
    {<<>>, <<"i", "9">>, <<"x">>, <<" ", "+", "=", " ", "1">>}
    \cup {Suffix(t) : t \in Widths}
LexTexts ==
    {<<"x", " ", "+", "=", " ", "1">>,
     <<"a", "<", "=", "b", "=", "=", "c">>,
     <<"o", "u", "t", " ", "1", " ", "/", "/", " ", "@", "\n", "e", "n", "d">>,
     <<"o", "u", "t", "e", "r", " ", "i", "f", "_", "1">>,
     <<"a", " ", "@", " ", "b">>,
     <<"1", " ", "/", " ", "2">>}
LexInputs == {n \o e : n \in LexNumerals, e \in LexEndings} \cup LexTexts

\* the state before the pipeline has read its source
Unread ==
    /\ Untouched
    /\ lru_cache = NewCache(1)
    /\ tokens = <<>>
    /\ calc = NoCalc
    /\ phase = "source"

LexInit == source \in LexInputs /\ Unread

\* "lexer::tokenize(&code)?" of main: the tokens, or the error as the result
\* of the run, or the panic of a callback
Lexed(r) ==
    /\ phase' = IF r.panic THEN "aborted" ELSE IF r.ok THEN "lexed" ELSE "failed"
    /\ tokens' = r.tokens
    /\ result' = IF r.ok \/ r.panic THEN result ELSE ErrU64(r.err)

Tokenize ==
    /\ phase = "source"
    /\ Lexed(tokenize(source))
    /\ UNCHANGED <<parser_pos, source, analysis, lru_cache, incremental, calc, ast, warnings, program, frames, output, stdout, stderr, executed>>

LexNext == Tokenize

LexSpec == LexInit /\ [][LexNext]_vars

(***************************************************************************)
(* parser.rs : parse_program turn by turn                                  *)
(***************************************************************************)
\* the token sequences handed to the parser: every sequence of up to MaxLen
\* tokens of the alphabet, and longer ones with bodies in bodies
MaxLen == 4
Alphabet ==
    {Tok("Def"), Tok("End"), Tok("If"), TIdent("f"), TNumber(1), Tok("Plus"), Tok("Assign")}
ShortInputs == UNION {[1..n -> Alphabet] : n \in 0..MaxLen}
\*   def f  if 1  while 1  f = 1                 (three bodies left open)
InOpenBodies ==
    <<Tok("Def"), TIdent("f"), Tok("If"), TNumber(1), Tok("While"), TNumber(1)>>
    \o Let("f", 1)
\*   if 1  +  def  end  end  =                   (tokens no statement starts with)
InStray ==
    <<Tok("If"), TNumber(1), Tok("Plus"), Tok("Def"), Tok("End"), Tok("End"), Tok("Assign")>>
\*   def f n , m  return n + m  end  out f 1 , 1
InCall ==
    <<Tok("Def"), TIdent("f"), TIdent("n"), Tok("Comma"), TIdent("m"), Tok("Return"),
      TIdent("n"), Tok("Plus"), TIdent("m"), Tok("End"), Tok("Out"), TIdent("f"),
      TNumber(1), Tok("Comma"), TNumber(1)>>
\*   while 1  def f  out  end  def               (a statement cut off in a body)
InCutOff ==
    <<Tok("While"), TNumber(1), Tok("Def"), TIdent("f"), Tok("Out"), Tok("End"), Tok("Def")>>
LongInputs == {InOpenBodies, InStray, InCall, InCutOff}

ParseInit ==
    /\ tokens \in ShortInputs \cup LongInputs
    /\ calc = NoCalc
    /\ Idle

\* one turn of the loop of parse_program
Turned(isDef, r) ==
    /\ parser_pos' = AfterTurn(tokens, isDef, r)
    /\ ast' = StatementsAfter(r, ast)
    /\ warnings' = WarningsAfter(isDef, r, warnings)

ParseTurn ==
    /\ phase = "lexed"
    /\ parser_pos < Len(tokens)
    /\ Turned(TokAt(tokens, parser_pos).k = "Def",
              parse_stmt(tokens, scan_function_locations(tokens), parser_pos))
    /\ UNCHANGED <<source, analysis, lru_cache, incremental, calc, tokens, phase, program, frames, output, stdout, stderr, executed, result>>

\* the end of the loop: "self.pos = original_pos; Ok(Program { statements })"
ParseReturn ==
    /\ phase = "lexed"
    /\ parser_pos >= Len(tokens)
    /\ phase' = "parsed"
    /\ parser_pos' = 0
    /\ UNCHANGED <<source, analysis, lru_cache, incremental, calc, tokens, ast, warnings, program, frames, output, stdout, stderr, executed, result>>

ParseNext == ParseTurn \/ ParseReturn

ParseSpec == ParseInit /\ [][ParseNext]_vars

(***************************************************************************)
(* Properties                                                               *)
(***************************************************************************)
\* the run is over: Ok, Err or a panic
Ended == phase \in {"done", "failed", "aborted"}

\* the statements that are not definitions, which compile_to_bytecode
\* compiles to program.instructions
Main == SelectSeq(ast, NotFuncDef)

\* the literals of the expression programs
N1 == Number(NumberLiteral(1))
N2 == Number(NumberLiteral(2))
N3 == Number(NumberLiteral(3))
N7 == Number(NumberLiteral(7))

\* C1: a call `f a` in a top-level statement evaluates to the value of the
\* body with the parameter bound to the argument, and the statement then
\* runs with it: `def f n return n + 1 end` `out f 4` appends exactly "5",
\* and the statements that follow run.
C1_CallEvaluatesBody ==
    /\ (tokens = SrcCall /\ Ended) => (phase = "done" /\ output = << <<"5">> >>)
    /\ (tokens = SrcCallThen /\ Ended) => (phase = "done" /\ output = << <<"5">>, <<"9">> >>)

\* C2: an arithmetic operation that fails in the algebra ends the execution
\* with the algebra's message; the expression produces no output line and no
\* later statement runs.
C2_ArithmeticFailureEnds ==
    tokens \in {SrcOverflow, SrcOverflowThen} =>
        /\ executed = <<>>
        /\ Ended => /\ phase = "failed"
                    /\ result.err = IntAdd(IV("I8", 127), IV("I8", 1)).err

\* C3: every Out executed, at top level or inside a called function, appends
\* the text of the popped value to the output list, in execution order.
C3_EveryOutIsListed == phase \in {"running", "done"} => output = executed

\* C4: tail calls do not nest activations: the live activations are execute
\* and one per call in progress that is not a tail call, however long the
\* chain; and the value of the last callee is the caller's value.
C4_TailCallsDoNotNest ==
    /\ Len(frames) <= 1 + Cardinality({i \in 1..Len(frames) : frames[i].via = "Call"})
    /\ (tokens \in TailChainSources /\ Ended) => (phase = "done" /\ output = << <<"0">> >>)

\* the JumpIfFalse of a compiled if statement skips exactly the compiled body
IfSkipsBody(stmt, functions) ==
    LET code == compile_statements(<<stmt>>, functions)
        body == compile_statements(stmt.body, functions)
        at == Len(code) - Len(body)
    IN  /\ at >= 1
        /\ code[at].op = "JumpIfFalse"
        /\ JumpTarget(at, code[at].n) = Len(code)

\* C5: for every if statement the JumpIfFalse skips exactly the instructions
\* of the compiled body; with a false condition no instruction of the body
\* runs and none after it is skipped (x keeps its value and is printed).
C5_IfSkipsExactlyBody ==
    /\ phase \in {"running", "done"} =>
          \A i \in 1..Len(Main) : Main[i].s = "If" => IfSkipsBody(Main[i], program.functions)
    /\ \A body \in IfBodies :
          (tokens = SrcIf(0, body) /\ Ended) => (phase = "done" /\ output = << <<"5">> >>)

\* the jumps of the while loop that is the i-th statement of a list, in the
\* code compiled from the list: the JumpIfFalse after the condition goes to
\* the first instruction past the back-edge Jump, the Jump to the first
\* instruction of the condition
WhileJumps(stmts, i, code, functions) ==
    LET before == compile_statements(SubSeq(stmts, 1, i - 1), functions)
        through == compile_statements(SubSeq(stmts, 1, i), functions)
        cond == compile_expr(stmts[i].cond, <<>>, functions)
        jif == Len(before) + Len(cond) + 1
    IN  /\ SubSeq(code, 1, Len(through)) = through
        /\ jif < Len(through)
        /\ through[jif].op = "JumpIfFalse"
        /\ JumpTarget(jif, through[jif].n) = Len(through)
        /\ through[Len(through)].op = "Jump"
        /\ JumpTarget(Len(through), through[Len(through)].n) = Len(before)

\* every while loop of a statement list has these jumps
AllWhileJumps(stmts, code, functions) ==
    \A i \in 1..Len(stmts) : stmts[i].s = "While" => WhileJumps(stmts, i, code, functions)

\* what  i = 0  while i < K BODY end  prints
LoopOutput(K, body) ==
    CASE body = BodyOutIncr -> [j \in 1..K |-> Decimal(j - 1)]
      [] body = BodyIncr -> <<>>
      [] OTHER -> [j \in 1..(2 * K) |->
                      IF j % 2 = 1 THEN Decimal((j + 1) \div 2) ELSE <<"4">>]

\* C6: for every while loop the JumpIfFalse targets the first instruction
\* past the back-edge Jump and the Jump targets the first instruction of the
\* condition; the condition is evaluated before every iteration and, when it
\* is zero, the statement after the loop runs (the counting loop prints 0, 1,
\* 2).
C6_WhileJumpTargets ==
    /\ phase \in {"running", "done"} =>
          /\ AllWhileJumps(Main, program.instructions, program.functions)
          /\ \A d \in 1..Len(ast) :
                ast[d].s = "FuncDef" =>
                    AllWhileJumps(ast[d].body, program.functions[ast[d].name].code,
                                  compile_to_bytecode(SubSeq(ast, 1, d - 1)).functions)
    /\ (tokens = SrcWhile /\ Ended) =>
          (phase = "done" /\ output = << <<"0">>, <<"1">>, <<"2">> >>)
    /\ \A K \in 0..MaxIter, body \in WhileBodies :
          (tokens = SrcLoop(K, body) \o OutNum(9) /\ Ended) =>
              (phase = "done" /\ output = Append(LoopOutput(K, body), <<"9">>))
    /\ (tokens = SrcLoopInFunction /\ Ended) =>
          (phase = "done" /\ executed = << <<"0">>, <<"1">>, <<"2">> >>)

\* the counting loop has run to its end and printed 0, 1, 2
C6_Witness ==
    /\ tokens = SrcWhile
    /\ phase = "done"
    /\ output = << <<"0">>, <<"1">>, <<"2">> >>
    /\ \E i \in 1..Len(Main) : Main[i].s = "While"

\* the names of the function definitions of a statement list, nested ones
\* included, one entry per definition
RECURSIVE DefNames(_)
DefNames(stmts) ==
    IF Len(stmts) = 0 THEN <<>>
    ELSE (IF Head(stmts).s = "FuncDef"
          THEN <<Head(stmts).name>> \o DefNames(Head(stmts).body)
          ELSE IF Head(stmts).s \in {"If", "While"} THEN DefNames(Head(stmts).body)
          ELSE <<>>)
         \o DefNames(Tail(stmts))

\* the names that two definitions of the program share
DuplicateNames ==
    {DefNames(ast)[i] : i \in {j \in 1..Len(DefNames(ast)) :
                                  \E k \in 1..Len(DefNames(ast)) :
                                      k # j /\ DefNames(ast)[k] = DefNames(ast)[j]}}

\* C7: the analysis of a program with two function definitions of one name
\* fails with "Function already defined: NAME"; the program is neither
\* compiled nor executed.
C7_DuplicateDefinitionFails ==
    (DuplicateNames # {} /\ phase \notin {"lexed", "parsed"}) =>
        /\ phase = "failed"
        /\ \E name \in DuplicateNames : result.err = <<"Function already defined: ", name>>
        /\ frames = <<>>
        /\ executed = <<>>

\* an identifier reference of the expression that names neither a bound
\* variable nor a known function
RECURSIVE ExprUnbound(_, _, _)
ExprUnbound(expr, bound, functions) ==
    CASE expr.e = "Ident" -> expr.name \notin bound /\ expr.name \notin functions
      [] expr.e = "BinOp" ->
            ExprUnbound(expr.l, bound, functions) \/ ExprUnbound(expr.r, bound, functions)
      [] expr.e = "Call" ->
            \/ expr.name \notin functions
            \/ \E i \in 1..Len(expr.args) : ExprUnbound(expr.args[i], bound, functions)
      [] OTHER -> FALSE

\* the statements from the i-th on, read in source order with the variables
\* bound so far: is there an unbound reference, and what is bound afterwards.
\* The body of a definition sees its parameters; the body of a nested one is
\* given the variables of the enclosing body as well.
RECURSIVE StmtsUnbound(_, _, _, _, _)
StmtsUnbound(stmts, i, bound, functions, nested) ==
    IF i > Len(stmts) THEN [unbound |-> FALSE, bound |-> bound]
    ELSE LET stmt == stmts[i]
             inner == IF stmt.s \in {"If", "While"}
                      THEN StmtsUnbound(stmt.body, 1, bound, functions, nested)
                      ELSE IF stmt.s = "FuncDef"
                      THEN StmtsUnbound(stmt.body, 1,
                                        (IF nested THEN bound ELSE {})
                                          \cup {stmt.params[k] : k \in 1..Len(stmt.params)},
                                        functions, TRUE)
                      ELSE [unbound |-> FALSE, bound |-> bound]
             here == CASE stmt.s \in {"Assign", "Return", "Out"} ->
                             ExprUnbound(stmt.expr, bound, functions)
                       [] stmt.s \in {"If", "While"} ->
                             ExprUnbound(stmt.cond, bound, functions) \/ inner.unbound
                       [] OTHER -> inner.unbound
             after == CASE stmt.s = "Assign" -> bound \cup {stmt.name}
                        [] stmt.s \in {"If", "While"} -> inner.bound
                        [] OTHER -> bound
             rest == StmtsUnbound(stmts, i + 1, after, functions, nested)
         IN  [unbound |-> here \/ rest.unbound, bound |-> rest.bound]

\* the program holds a reference to an unbound name
HasUnboundReference ==
    StmtsUnbound(ast, 1, {}, {DefNames(ast)[i] : i \in 1..Len(DefNames(ast))}, FALSE).unbound

\* C8: name resolution rejects every program with a reference to an unbound
\* name in any position: a top-level statement, a function body, the body of
\* a definition nested in another body.
C8_UnboundReferenceRejected ==
    (HasUnboundReference /\ phase \notin {"lexed", "parsed"}) => phase = "failed"

\* C9: `==` is a binary operator of the lowest precedence: `a == b` in an
\* expression position parses to BinOp(a, Eq, b) and all three tokens are
\* consumed.
C9_EqIsBinaryOperator ==
    phase # "lexed" =>
        /\ tokens = SrcEqOut =>
              /\ ast = <<Assign("a", N1), Assign("b", N1),
                         Out(BinOp(Ident("a"), "Eq", Ident("b")))>>
              /\ warnings = <<>>
        /\ tokens = SrcEqNumbers =>
              /\ ast = <<Out(BinOp(N1, "Eq", N1))>>
              /\ warnings = <<>>
        /\ tokens = SrcEqIf =>
              /\ ast = <<Assign("a", N1), Assign("b", N1),
                         If(BinOp(Ident("a"), "Eq", Ident("b")), <<Out(N7)>>)>>
              /\ warnings = <<>>

\* the precedence levels the grouping is stated with
Level(op) ==
    CASE op \in {"Mul", "Mod"} -> 3
      [] op \in {"Plus", "Minus"} -> 2
      [] OTHER -> 1

\* 7 op1 2 op2 3 grouped by level, operators of one level from the left
Grouped(op1, op2) ==
    IF Level(op2) > Level(op1)
    THEN BinOp(N7, op1, BinOp(N2, op2, N3))
    ELSE BinOp(BinOp(N7, op1, N2), op2, N3)

\* C10: parse_expr groups binary operators by level (* and % above + and -,
\* these above < <= > >=) and operators of one level associate to the left;
\* `out 1 + 2 * 3` prints 7.
C10_PrecedenceAndAssociativity ==
    /\ \A op1 \in LevelOps, op2 \in LevelOps :
          (tokens = SrcExpr(op1, op2) /\ phase # "lexed") =>
              (ast = <<Out(Grouped(op1, op2))>> /\ warnings = <<>>)
    /\ (tokens = SrcPrecedence /\ phase # "lexed") =>
          ast = <<Out(BinOp(N1, "Plus", BinOp(N2, "Mul", N3)))>>
    /\ (tokens = SrcPrecedence /\ Ended) => (phase = "done" /\ output = << <<"7">> >>)

\* 7 - 2 - 3 has been parsed from the left, and 1 + 2 * 3 has printed 7
C10_WitnessLeft ==
    /\ tokens = SrcExpr("Minus", "Minus")
    /\ phase = "done"
    /\ ast = <<Out(BinOp(BinOp(N7, "Minus", N2), "Minus", N3))>>
    /\ output = << <<"2">> >>

\* the statements of ApplyPrefix, and the expression of a one-token argument
ApplyPrefixAst ==
    <<FuncDef("f", <<"n">>, <<Return(BinOp(Ident("n"), "Plus", N1))>>),
      Assign("a", N1), Assign("g", N2)>>
ArgExprOf(arg) ==
    CASE arg[1].k = "Number" -> Number(arg[1].v)
      [] arg[1].k = "Ident" -> Ident(arg[1].name)
      [] OTHER -> TypedNumber(arg[1].v)

\* C11: an identifier followed by an identifier, a literal (plain or
\* width-suffixed) or a minus is a call with the following tokens as its
\* arguments exactly when the identifier is a name the pre-scan found after
\* a def (and a following identifier is not itself followed by =); otherwise
\* it is a variable reference and the following tokens start the next
\* statement.
C11_CallsOnlyKnownFunctions ==
    /\ \A h \in ApplyHeads, arg \in ApplyArgs, atStmt \in BOOLEAN :
          (tokens = SrcApply(h, arg, atStmt) /\ phase # "lexed") =>
              IF h \in scan_function_locations(tokens)
              THEN /\ ast = ApplyPrefixAst \o <<Out(Call(h, <<ArgExprOf(arg)>>))>>
                   /\ warnings = <<>>
              ELSE /\ ast = ApplyPrefixAst \o <<Out(Ident(h))>> \o parse(arg).statements
                   /\ warnings = parse(arg).warns
    /\ \A h \in ApplyHeads, atStmt \in BOOLEAN :
          (tokens = SrcApply(h, ArgThenAssign, atStmt) /\ phase # "lexed") =>
              /\ ast = ApplyPrefixAst \o <<Out(Ident(h)), Assign("a", Number(NumberLiteral(5)))>>
              /\ warnings = <<>>
    /\ \A atStmt \in BOOLEAN :
          (tokens = SrcApply("f", ArgMinus, atStmt) /\ phase # "lexed") =>
              /\ Len(ast) = Len(ApplyPrefixAst) + 1
              /\ Last(ast).s = "Out"
              /\ Last(ast).expr.e = "Call"
              /\ Last(ast).expr.name = "f"

\* the integers an operation of the algebra denotes, and the wider of the
\* operands' widths in the order I8 < I16 < I32 < I64 < I128 < BigInt
Fixed(x) == x.t # "BigInt"
BothFixed == Fixed(calc.a) /\ Fixed(calc.b)
ArithOps == {"Add", "Sub", "Mul", "Div", "Rem"}
Wider == IF TypeIdx(calc.a.t) >= TypeIdx(calc.b.t) THEN calc.a.t ELSE calc.b.t
Sum == BigAdd(calc.a.v, calc.b.v)
Difference == BigSub(calc.a.v, calc.b.v)
Product == BigMul(calc.a.v, calc.b.v)
Quotient == BigDiv(calc.a.v, calc.b.v)
Remainder == BigRem(calc.a.v, calc.b.v)
IsZero(x) == x.v = Big(0)
EndsWith(text, tail) ==
    /\ Len(text) >= Len(tail)
    /\ SubSeq(text, Len(text) - Len(tail) + 1, Len(text)) = tail

\* C12: the product of two fixed-width values never fails: it is the exact
\* product in the wider of the two widths when it fits that width, and a
\* BigInt holding the exact product when it does not; 1000000i32 * 1000000i32
\* is the BigInt that prints as 1000000000000.
C12_MulNeverFails ==
    (calc.op = "Mul" /\ BothFixed) =>
        /\ calc.r.ok
        /\ calc.r.val.v = Product
        /\ calc.r.val.t = IF InRange(Wider, Product) THEN Wider ELSE "BigInt"
        /\ (calc.a = Million /\ calc.b = Million) =>
              to_string(calc.r.val) = <<"1", "0", "0", "0", "0", "0", "0", "0", "0", "0", "0", "0", "0">>

C12_Witness ==
    /\ calc.op = "Mul"
    /\ calc.a = Million
    /\ calc.b = Million
    /\ calc.r.ok
    /\ calc.r.val.t = "BigInt"

\* C13: a successful + - * / % has the wider of its operands' widths, except
\* that a fixed-width product that does not fit that width is a BigInt.
C13_ResultWidth ==
    (calc.op \in ArithOps /\ calc.r.ok) =>
        calc.r.val.t =
            IF calc.op = "Mul" /\ BothFixed /\ ~InRange(Wider, Product) THEN "BigInt" ELSE Wider

C13_Witness ==
    /\ calc.op = "Add"
    /\ calc.a.t = "I64"
    /\ calc.b.t = "I16"
    /\ calc.r.ok
    /\ calc.r.val.t = "I64"

\* C14: for fixed-width operands a + b and a - b are the exact sum and
\* difference in the wider width when that width holds them; otherwise they
\* are an error (not a wrapped value) whose text names the operation and ends
\* with the two operands around the operator.
C14_AddSubChecked ==
    /\ (calc.op = "Add" /\ BothFixed) =>
          IF InRange(Wider, Sum) THEN calc.r = Ok(IVal(Wider, Sum))
          ELSE /\ ~calc.r.ok
               /\ ~calc.r.panic
               /\ calc.r.err[1] = "Addition overflow for "
               /\ EndsWith(calc.r.err, BigText(calc.a.v) \o <<" + ">> \o BigText(calc.b.v))
    /\ (calc.op = "Sub" /\ BothFixed) =>
          IF InRange(Wider, Difference) THEN calc.r = Ok(IVal(Wider, Difference))
          ELSE /\ ~calc.r.ok
               /\ ~calc.r.panic
               /\ calc.r.err[1] = "Subtraction overflow for "
               /\ EndsWith(calc.r.err, BigText(calc.a.v) \o <<" - ">> \o BigText(calc.b.v))

C14_Witness ==
    /\ calc.op = "Add"
    /\ calc.a = IVal("I8", MaxValue("I8"))
    /\ calc.b = IV("I8", 1)
    /\ ~calc.r.ok
    /\ calc.r.err = <<"Addition overflow for ", "i8", ": ", "1", "2", "7", " + ", "1">>

\* C15: a / b and a % b never abort: for every pair of operands of every
\* width they return the exact quotient or remainder when the result's
\* width holds it, and an error value otherwise, the minimum of a width
\* divided by -1 included.
C15_DivRemNeverAbort ==
    /\ calc.op = "Div" =>
          /\ ~calc.r.panic
          /\ calc.r.ok => calc.r.val.v = Quotient
    /\ calc.op = "Rem" =>
          /\ ~calc.r.panic
          /\ calc.r.ok => calc.r.val.v = Remainder

\* C16: with a zero divisor a / b is the error "Division by zero" and a % b
\* the error "Modulo by zero", for every width and every dividend; BigInt
\* addition, subtraction and multiplication never fail and are exact.
C16_ZeroDivisorAndBigInt ==
    /\ (calc.op = "Div" /\ IsZero(calc.b)) => calc.r = Err(<<"Division by zero">>)
    /\ (calc.op = "Rem" /\ IsZero(calc.b)) => calc.r = Err(<<"Modulo by zero">>)
    /\ (calc.op = "Add" /\ ~BothFixed) => calc.r = Ok(IVal("BigInt", Sum))
    /\ (calc.op = "Sub" /\ ~BothFixed) => calc.r = Ok(IVal("BigInt", Difference))
    /\ (calc.op = "Mul" /\ ~BothFixed) => calc.r = Ok(IVal("BigInt", Product))

C16_Witness ==
    /\ calc.op = "Div"
    /\ calc.a = IVal("BigInt", AboveI128)
    /\ IsZero(calc.b)
    /\ calc.r.err = <<"Division by zero">>

\* C17: the comparison of two integer values is the order of the integers
\* they denote, whatever their widths, a BigInt outside the 128-bit range
\* against a fixed-width value included; no comparison aborts.
C17_ComparisonTotalOrder ==
    calc.op = "Cmp" =>
        calc.ord = IF BigLess(calc.a.v, calc.b.v) THEN "Less"
                   ELSE IF BigLess(calc.b.v, calc.a.v) THEN "Greater"
                   ELSE "Equal"

\* the literal programs out A OP B: those the algebra gives a value, with the
\* value, and those it gives an error, with the operands and the instruction
\* of the operator
PastCompile == phase \notin {"lexed", "parsed", "analyzed"}
Trillion == Norm(FALSE, <<1, 0, 0, 0, 0, 0, 0, 0, 0, 0, 0, 0, 0>>)
LitValued ==
    {[src |-> SrcLitSum, val |-> IV("I8", 5)],
     [src |-> SrcLitMillion, val |-> IVal("BigInt", Trillion)],
     [src |-> SrcLitMixed, val |-> IV("I64", -2)],
     [src |-> SrcLitLess, val |-> IV("I64", 0)]}
LitFailing ==
    {[src |-> SrcLitModZero, a |-> IV("I8", 7), op |-> "Mod", b |-> IV("I8", 0)],
     [src |-> SrcOverflow, a |-> IV("I8", 127), op |-> "Add", b |-> IV("I8", 1)]}

\* C18: an expression made of literals only compiles to exactly one
\* instruction, a LoadConst, holding the value the algebra gives the
\* expression.
C18_LiteralsFoldToOneConst ==
    /\ \A src \in LitSources \cup {SrcOverflow} :
          (tokens = src /\ PastCompile) =>
              /\ Len(program.instructions) = 2
              /\ program.instructions[1].op = "LoadConst"
              /\ program.instructions[2] = Plain("Out")
    /\ \A c \in LitValued :
          (tokens = c.src /\ PastCompile) => program.instructions[1] = LoadConst(c.val)

\* C18 as the code has it: a literal expression that the algebra gives a
\* value compiles to one LoadConst holding that value; one for which the
\* algebra returns an error is not folded: its operands are loaded and the
\* operator's instruction follows.
C18_LiteralsFoldUnlessError ==
    /\ \A c \in LitValued :
          (tokens = c.src /\ PastCompile) =>
              program.instructions = <<LoadConst(c.val), Plain("Out")>>
    /\ \A c \in LitFailing :
          (tokens = c.src /\ PastCompile) =>
              program.instructions = <<LoadConst(c.a), LoadConst(c.b), Plain(c.op), Plain("Out")>>

C18_Witness ==
    /\ tokens = SrcLitMillion
    /\ phase = "running"
    /\ program.instructions[1] = LoadConst(IVal("BigInt", Trillion))

\* C19: a program of the single statement out EXPR prints exactly one line,
\* the decimal text of the value the algebra gives EXPR: 5 for 2 + 3,
\* 1000000000000 for 1000000i32 * 1000000i32, -2 for 7i8 - 9i64, 0 for 5 < 3,
\* 1 for 1 == 1, 0 for 170141183460469231731687303715884105728 < 1.
C19_OutRoundTrip ==
    /\ \A c \in LitValued :
          (tokens = c.src /\ Ended) => (phase = "done" /\ output = <<to_string(c.val)>>)
    /\ (tokens = SrcEqNumbers /\ Ended) => (phase = "done" /\ output = << <<"1">> >>)
    /\ (tokens = SrcLitBigLess /\ Ended) => (phase = "done" /\ output = << <<"0">> >>)

\* C20: a value passed to a function is the value of its parameter, and the
\* value it returns is the value the caller goes on with, negative values
\* and values beyond 64 bits included, and no call aborts: the function that
\* prints its parameter four times and returns it, called in `out f a`,
\* makes five Outs of a's value; the one that returns 0 - n, called with 5,
\* makes four of 5 and one of -5.
C20_CallPassesValues ==
    /\ (tokens = SrcPassSmall /\ Ended) =>
          (phase = "done" /\ executed = [i \in 1..5 |-> BigText(Big(5))])
    /\ (tokens = SrcPassNegative /\ Ended) =>
          (phase = "done" /\ executed = [i \in 1..5 |-> BigText(Big(-5))])
    /\ (tokens = SrcPassWide /\ Ended) =>
          (phase = "done" /\ executed = [i \in 1..5 |-> BigText(AboveI64)])
    /\ (tokens = SrcReturnNegative /\ Ended) =>
          (phase = "done"
           /\ executed = [i \in 1..5 |-> IF i = 5 THEN BigText(Big(-5)) ELSE BigText(Big(5))])

\* the activation a step leaves at depth k agrees with the one it found there
\* but for the stack (and the pc)
SameBut(k) ==
    /\ frames'[k].variables = frames[k].variables
    /\ frames'[k].registers = frames[k].registers
    /\ frames'[k].code = frames[k].code
    /\ frames'[k].via = frames[k].via
Below(n) == SubSeq(frames, 1, n)
ParamCount(name) == Len(CalleeOf(name, "Call").params)
ParamNames(name) ==
    {CalleeOf(name, "Call").params[i] : i \in 1..ParamCount(name)}
\* the stack without its n topmost values
Without(stack, n) == SubSeq(stack, 1, Len(stack) - n)
\* a Call instruction is about to be executed and the execution goes on
\* after it
CallStep == AtInstr /\ CurInstr.op = "Call" /\ phase' = "running"
\* an activation entered by a Call returns to its caller
CallReturns ==
    /\ phase = "running" /\ phase' = "running"
    /\ Len(frames') = Len(frames) - 1
    /\ Cur.via = "Call"

\* the step of a Call: the activations below the caller and the caller's
\* variables and registers are left alone, the arguments are gone from the
\* caller's stack; a callee that starts has an empty stack and its parameters
\* for variables, one that is answered at once has its result pushed
CallEffect ==
    CallStep =>
        /\ Below(Len(frames) - 1) = SubSeq(frames', 1, Len(frames) - 1)
        /\ SameBut(Len(frames))
        /\ IF Len(frames') = Len(frames) + 1
           THEN /\ frames'[Len(frames)].stack =
                      Without(Cur.stack, ParamCount(CurInstr.name))
                /\ frames'[Len(frames) + 1].stack = <<>>
                /\ DOMAIN frames'[Len(frames) + 1].variables = ParamNames(CurInstr.name)
           ELSE /\ Len(frames') = Len(frames)
                /\ Len(frames'[Len(frames)].stack) =
                      Len(Without(Cur.stack, ParamCount(CurInstr.name))) + 1
                /\ Front(frames'[Len(frames)].stack) =
                      Without(Cur.stack, ParamCount(CurInstr.name))
\* the return of a callee: one value more on the caller's stack
ReturnEffect ==
    CallReturns =>
        /\ Below(Len(frames') - 1) = SubSeq(frames', 1, Len(frames') - 1)
        /\ SameBut(Len(frames'))
        /\ frames'[Len(frames')].pc = frames[Len(frames')].pc
        /\ Len(frames'[Len(frames')].stack) = Len(frames[Len(frames')].stack) + 1
        /\ Front(frames'[Len(frames')].stack) = frames[Len(frames')].stack
\* a step of the innermost activation leaves the others alone
CalleeEffect ==
    (phase = "running" /\ phase' = "running" /\ Len(frames') >= Len(frames)) =>
        Below(Len(frames) - 1) = SubSeq(frames', 1, Len(frames) - 1)

\* C21: a Call changes the caller's activation only by removing the callee's
\* param_count arguments from the top of its stack and, when the callee has
\* returned, pushing one result: its variables, registers and the rest of its
\* stack stay as they were, and so does every activation below it; the
\* callee starts with an empty stack and a variable map holding only its
\* parameters.
C21_CallFrameEffect == [][CallEffect /\ ReturnEffect /\ CalleeEffect]_vars

\* the callee has assigned 8 to x and returned it: the caller holds x = 5
\* still, and its stack the operand loaded before the call under the result
C21_Witness ==
    /\ tokens = SrcShadow
    /\ phase = "running"
    /\ Len(frames) = 1
    /\ Len(stdout) = 3
    /\ frames[1].variables["x"] = IV("I8", 5)
    /\ frames[1].stack = <<IV("I8", 5), IV("I64", 8)>>

\* the next instruction is a Call or TailCall of a name that the table the
\* activation looks in does not hold
CallsMissing ==
    /\ AtInstr
    /\ CurInstr.op \in {"Call", "TailCall"}
    /\ ~CalleeOf(CurInstr.name, CurInstr.op).found
NotFound(name) == ErrU64(<<"Function not found: ", name>>)
\* the step of such an instruction ends every activation with the error
MissingStops ==
    CallsMissing =>
        /\ phase' = "failed"
        /\ frames' = <<>>
        /\ result' = NotFound(CurInstr.name)
        /\ UNCHANGED <<output, stdout, stderr, executed>>
\* nothing runs once the execution has failed
FailedStays == phase = "failed" => UNCHANGED vars

\* C22: a Call or TailCall of a name absent from the function table stops
\* the execution at once, at any nesting depth, with the error
\* "Function not found: NAME": no instruction of any activation runs after
\* it and that error is the result of the whole execution.
C22_MissingFunctionStops == [][MissingStops /\ FailedStays]_vars

\* the error was raised by a Call, and by a TailCall, in execute and in
\* execute_function: the Out before the call has run, the one after has not
C22_Witness ==
    /\ tokens = SrcMissingInTailCall
    /\ phase = "failed"
    /\ result = NotFound("g")
    /\ output = << <<"8">> >>
    /\ stdout = << <<"1">>, <<"1">>, <<"1">> >>

\* C23: in a program the semantic analyzer accepted, every Call and TailCall
\* that is executed names a function present in the function table, and the
\* execution never fails with "Function not found".
C23_AcceptedCallsAreFound ==
    /\ ~CallsMissing
    /\ \A name \in {"f", "g"} : ~(phase = "failed" /\ result = NotFound(name))

\* the number of values an instruction pops from the operand stack
Pops(instr) ==
    CASE instr.op \in BinaryOps -> 2
      [] instr.op \in {"StoreVar", "JumpIfFalse", "Return", "Out"} -> 1
      [] instr.op \in {"Call", "TailCall"} -> Len(CalleeOf(instr.name, instr.op).params)
      [] OTHER -> 0

\* C24: while the bytecode of an accepted program is executed, no
\* instruction pops an empty operand stack: the instruction about to run
\* finds on the stack the values it pops, so that the zero fallback is never
\* taken, by a StoreVar in particular.
C24_NoPopOfEmptyStack == AtInstr => Len(Cur.stack) >= Pops(CurInstr)

\* the instruction sequences of the compiled program: the top level and
\* every function, in both tables
Sequences ==
    {program.instructions}
    \cup {program.functions[f].code : f \in DOMAIN program.functions}
    \cup {program.compiled_functions[f].instructions : f \in DOMAIN program.compiled_functions}
\* the jump at the 0-based index i, with offset k, targets i + 1 + k
JumpsInBounds(code) ==
    \A i \in 0..(Len(code) - 1) :
        code[i + 1].op \in {"Jump", "JumpIfFalse"} =>
            (0 <= i + 1 + code[i + 1].n /\ i + 1 + code[i + 1].n <= Len(code))

\* C25: in every instruction sequence the compiler produces, the top level
\* and every function, each Jump and JumpIfFalse at index i with offset k
\* has 0 <= i + 1 + k <= length, so that the pc of every activation stays
\* within the bounds of its instructions.
C25_JumpsStayInBounds ==
    /\ PastCompile => \A code \in Sequences : JumpsInBounds(code)
    /\ \A d \in 1..Len(frames) : frames[d].pc <= Len(frames[d].code)

\* the programs with the stray token in a body, each with the program it
\* should parse as, and what parse has done once it has run
StrayBodies ==
    {[src |-> SrcStrayInDef(<<Tok("Assign")>>), as |-> SrcStrayInDef(<<>>)],
     [src |-> SrcStrayInIf(<<Tok("Assign")>>), as |-> SrcStrayInIf(<<>>)],
     [src |-> SrcStrayInWhile(<<Tok("Assign")>>), as |-> SrcStrayInWhile(<<>>)]}
PastParse == phase # "lexed"
ExpectedStatement == <<"Expected statement, got ", "Assign">>

\* C26: a token that starts no statement is recovered from inside the body
\* of a def, an if or a while: one warning, the token skipped, the rest of
\* the body parsed as without it; at top level it makes parse fail with the
\* error, and no Program is returned.
C26_BodyRecoversTopLevelFails ==
    /\ \A c \in StrayBodies :
          (tokens = c.src /\ PastParse) =>
              (ast = parse(c.as).statements /\ warnings = <<ExpectedStatement>>)
    /\ (tokens = SrcStrayAtTop(<<Tok("Assign")>>) /\ PastParse) =>
          (phase = "failed" /\ ast = <<>> /\ result = ErrU64(ExpectedStatement))

\* C27: a statement that is a bare expression starting with an identifier or
\* a number parses to the statement that out followed by the expression
\* parses to, for every operator and precedence level, and every token is
\* consumed (no token is left over and skipped with a warning).
C27_BareExpressionIsOut ==
    \A e \in BareExprs :
        (tokens = SrcBare(e) /\ PastParse) =>
            (ast = parse(SrcOutOf(e)).statements /\ warnings = <<>>)

\* some instruction of the code is the Call of name
HasCall(code, name) == \E i \in 1..Len(code) : code[i] = CallI(name)

\* C28: where a function is defined relative to its uses changes nothing: a
\* reference to it, with or without arguments, at top level or in the body
\* of another function, compiles to a Call, and the run gives the same
\* output whether the definition comes earlier or later: 6 for both orders
\* of g and f, five Outs of 4 for both places of `out f 4`.
C28_DefinitionOrderIrrelevant ==
    /\ \A src \in {SrcRefEarlier, SrcRefLater} :
          /\ (tokens = src /\ PastCompile) => HasCall(program.functions["f"].code, "g")
          /\ (tokens = src /\ Ended) => (phase = "done" /\ output = << <<"6">> >>)
    /\ \A src \in {SrcUseAfterDef, SrcUseBeforeDef} :
          /\ (tokens = src /\ PastCompile) => HasCall(program.instructions, "f")
          /\ (tokens = src /\ Ended) =>
                (phase = "done" /\ executed = [i \in 1..5 |-> <<"4">>])

\* the Fibonacci numbers: 0, 1, 1, 2, 3, 5, 8, ..
RECURSIVE FibFrom(_, _, _)
FibFrom(n, a, b) == IF n = 0 THEN a ELSE FibFrom(n - 1, b, a + b)
Fib(n) == FibFrom(n, 0, 1)

\* a Call or TailCall of a function that is found is about to be executed:
\* the function, and the first argument it is handed
Invoked ==
    /\ AtInstr
    /\ CurInstr.op \in {"Call", "TailCall"}
    /\ CalleeOf(CurInstr.name, CurInstr.op).found
Callee == CalleeOf(CurInstr.name, CurInstr.op)
FirstArgument == MagInt(PopArgs(Cur.stack, Len(Callee.params)).args[1].mag)
\* some instruction of the code, of one of the kinds, names a function of the
\* table
NamesKnown(code, kinds) ==
    \E i \in 1..Len(code) : code[i].op \in kinds /\ code[i].name \in DOMAIN program.functions
\* the invocation is answered with the Fibonacci number of the argument and
\* no activation of the function is made: a Call has it pushed, a tail call
\* from the top level makes it the result of the run
Answered ==
    /\ Len(frames') <= Len(frames)
    /\ UNCHANGED <<output, stdout, executed>>
    /\ CurInstr.op = "Call" =>
          /\ phase' = "running"
          /\ Len(frames') = Len(frames)
          /\ Len(frames'[Len(frames)].stack) > 0
          /\ Last(frames'[Len(frames)].stack) = IV("I64", Fib(FirstArgument))
    /\ (CurInstr.op = "TailCall" /\ InExecute) =>
          (phase' = "done" /\ result' = OkU64(Big(Fib(FirstArgument))))
\* the function's instructions start in an activation of their own
BodyRuns ==
    phase' = "running" =>
        /\ Len(frames') = Len(frames) + 1
        /\ Last(frames').code = Callee.code
        /\ Last(frames').pc = 0
\* the step of an invocation, with the instructions of the kinds counted as
\* calls
ShortcutStep(kinds) ==
    Invoked =>
        IF Len(Callee.params) = 1 /\ NamesKnown(Callee.code, kinds)
        THEN Answered
        ELSE BodyRuns

HashOfCall == compute_function_hash(incremental'.name, incremental'.params, incremental'.body)
CompiledNow ==
    CompiledFunction(incremental'.params,
                     compile_statements(incremental'.body, incremental'.functions))
\* the cache held, before the call, an entry for the name with that hash
CacheHit ==
    /\ incremental'.name \in DOMAIN incremental.cache
    /\ incremental.cache[incremental'.name].hash = HashOfCall
\* every entry of another name is after the call what it was before
OthersKept ==
    /\ DOMAIN incremental'.cache = DOMAIN incremental.cache \cup {incremental'.name}
    /\ \A other \in DOMAIN incremental.cache \ {incremental'.name} :
          incremental'.cache[other] = incremental.cache[other]
CallEffectOnCache ==
    IF CacheHit
    THEN /\ incremental'.returned = incremental.cache[incremental'.name].func
         /\ incremental'.cache = incremental.cache
    ELSE /\ incremental'.returned = CompiledNow
         /\ incremental'.cache[incremental'.name] =
               [hash |-> HashOfCall, func |-> CompiledNow]
         /\ OthersKept

\* C30: in any sequence of calls of compile_function, a call that finds a
\* cache entry for the name whose stored hash is the hash of (name,
\* parameters, body) returns the cached CompiledFunction and leaves the
\* cache as it is; any other call compiles, returns the new function and
\* overwrites the name's entry with the new hash and function, leaving the
\* entries of the other names as they are.
C30_CacheHitOrOverwrite == [][CallEffectOnCache]_vars

\* a hit that returned the function compiled by an earlier call, against
\* another function table: compiling now would give other instructions
C30_Witness ==
    /\ incremental.name = "f"
    /\ incremental.body = BodySuccOfG
    /\ incremental.functions = TableOfG
    /\ "h" \in DOMAIN incremental.cache
    /\ incremental.returned = incremental.cache["f"].func
    /\ incremental.returned.instructions # compile_statements(BodySuccOfG, TableOfG)

(***************************************************************************)
(* C31 : what an identifier in an expression is lowered to                 *)
(***************************************************************************)
\* the identifiers of an expression without calls, from left to right
RECURSIVE IdentsOf(_)
IdentsOf(expr) ==
    CASE expr.e = "Ident" -> <<expr.name>>
      [] expr.e = "BinOp" -> IdentsOf(expr.l) \o IdentsOf(expr.r)
      [] OTHER -> <<>>

RegisterBank == {"LoadReg", "StoreReg", "AddReg", "SubReg", "MulReg"}
IsReference(instr) == instr.op \in {"Call", "TailCall", "LoadVar"} \cup RegisterBank

\* the instructions of code that call or load something
References(code) == SelectSeq(code, IsReference)

\* every identifier as the claim has it: a Call for the name of a function,
\* a LoadVar for any other
AsCallOrLoadVar(names, table) ==
    [i \in 1..Len(names) |->
        IF names[i] \in table THEN CallI(names[i]) ELSE LoadVar(names[i])]

\* every identifier of one expression as a Call for a name of the table,
\* and for any other name the register it holds or is given (the registers
\* go to the first NumRegisters distinct variables of the expression, in the
\* order met) or, with no register left, a LoadVar
Index(seen, name) == CHOOSE k \in 1..Len(seen) : seen[k] = name
RECURSIVE AsCallOrRegister(_, _, _, _)
AsCallOrRegister(names, i, seen, table) ==
    IF i > Len(names) THEN <<>>
    ELSE IF names[i] \in table
    THEN <<CallI(names[i])>> \o AsCallOrRegister(names, i + 1, seen, table)
    ELSE IF \E k \in 1..Len(seen) : seen[k] = names[i]
    THEN <<LoadReg(Index(seen, names[i]) - 1, names[i])>>
         \o AsCallOrRegister(names, i + 1, seen, table)
    ELSE IF Len(seen) < NumRegisters
    THEN <<LoadReg(Len(seen), names[i])>>
         \o AsCallOrRegister(names, i + 1, Append(seen, names[i]), table)
    ELSE <<LoadVar(names[i])>> \o AsCallOrRegister(names, i + 1, seen, table)

\* the references of a list of assignment, out and return statements,
\* statement after statement
RECURSIVE PlainReferences(_, _, _)
PlainReferences(stmts, i, table) ==
    IF i > Len(stmts) THEN <<>>
    ELSE AsCallOrLoadVar(IdentsOf(stmts[i].expr), table)
         \o PlainReferences(stmts, i + 1, table)

RECURSIVE RegisterReferences(_, _, _)
RegisterReferences(stmts, i, table) ==
    IF i > Len(stmts) THEN <<>>
    ELSE AsCallOrRegister(IdentsOf(stmts[i].expr), 1, <<>>, table)
         \o RegisterReferences(stmts, i + 1, table)

\* the names defined by the statements before the i-th, and by all
DefinedBefore(i) == {ast[k].name : k \in {k \in 1..(i - 1) : IsFuncDef(ast[k])}}
Defined == DefinedBefore(Len(ast) + 1)
DefsAt == {i \in 1..Len(ast) : IsFuncDef(ast[i])}
TopLevel == SelectSeq(ast, NotFuncDef)

\* every piece of compiled code of the program
AllCode ==
    {program.instructions}
    \cup {program.functions[f].code : f \in DOMAIN program.functions}
    \cup {program.compiled_functions[f].instructions :
            f \in DOMAIN program.compiled_functions}
Emits(ops) == \E code \in AllCode : \E i \in 1..Len(code) : code[i].op \in ops

Holds(t, n) ==
    t = "BigInt" \/ (BigLeq(MinValue(t), n) /\ BigLeq(n, MaxValue(t)))
TargetWidth == get_type(calc.b)
Converted == calc.op \in {"Cast", "FromString"}

\* C32: from_string(s, W) and cast_to(W) succeed exactly when the value lies
\* within the signed range of W (always for BigInt), the result then has
\* width W and the same numeric value; a value cast to a width at least as
\* wide as its own and back is the original value.
C32_ConversionsExactInRange ==
    /\ Converted =>
          /\ calc.r.ok <=> Holds(TargetWidth, calc.a.v)
          /\ ~calc.r.panic
          /\ calc.r.ok => calc.r.val = IVal(TargetWidth, calc.a.v)
    /\ (calc.op = "CastBack" /\ TypeIdx(TargetWidth) >= TypeIdx(get_type(calc.a))) =>
          calc.r = Ok(calc.a)

\* the I16 value -129 has been refused by cast_to(I8) and by
\* from_string("-129", I8)
C32_Witness ==
    /\ calc.a = IV("I16", 0 - 129)
    /\ TargetWidth = "I8"
    /\ Converted
    /\ ~calc.r.ok

\* 127 as I8 has been cast to I128 and back
C32_WitnessBack ==
    /\ calc.a = IV("I8", 127)
    /\ TargetWidth = "I128"
    /\ calc.op = "CastBack"
    /\ calc.r = Ok(IV("I8", 127))

(***************************************************************************)
(* C33 : the parallel analysis of the function bodies                      *)
(***************************************************************************)
\* the analysis of the first n statements of one body on its own: a fresh
\* analyzer that knows the registered functions and the parameters
Alone(w, n) ==
    AnalyzeStmts(Analyzer(RegisterAll(ast), {w.params[i] : i \in 1..Len(w.params)}, {}),
                 SubSeq(w.body, 1, n), 1)

\* the closure has seen what its own statements give and nothing else
SeesOwnOnly(w) ==
    /\ View(w) = Alone(w, w.i - 1).st.functions
    /\ w.variables = Alone(w, w.i - 1).st.variables
    /\ w.cache = Alone(w, w.i - 1).st.cache
    /\ w.ok = Alone(w, w.i - 1).ok
    /\ w.err = Alone(w, w.i - 1).err

\* C33: whatever the order in which the closures of the function bodies
\* take their steps, no closure sees a variable, a function registration or
\* a cache entry made by another, and the result of the analysis (accepted,
\* or the error reported) is that of the bodies analysed one after another
\* in source order.
C33_ParallelAnalysisIsDeterministic ==
    /\ \A k \in 1..Len(analysis.workers) : SeesOwnOnly(analysis.workers[k])
    /\ phase = "analyzing" => analysis.shared = RegisterAll(ast)
    /\ phase = "analyzed" => analyze(ast).ok
    /\ phase = "failed" => (~analyze(ast).ok /\ result = ErrU64(analyze(ast).err))

\* the first body has registered its nested definition before the second
\* body, which refers to that name, has taken a step
C33_Witness ==
    /\ tokens = SrcNestedElsewhere
    /\ phase = "analyzing"
    /\ analysis.workers[1].done
    /\ "inner" \in analysis.workers[1].functions
    /\ ~analysis.workers[2].done
    /\ analysis.workers[2].i = 1

\* the two bodies that both fail have been analysed, in either order, and
\* the error reported is that of the first
C33_WitnessOrder ==
    /\ tokens = SrcBothUnbound
    /\ phase = "failed"
    /\ result = ErrU64(<<"Undefined variable or function: ", "y">>)


\* the statements the loop arm of compile_statements has an arm for
IsDirect(stmt) == stmt.s \in {"Assign", "Out"}

\* a statement list with every loop body cut down to its assignments and out
\* statements; the bodies of if statements and of definitions are cut down
\* in the same way, statement by statement
RECURSIVE Pruned(_)
PrunedStmt(stmt) ==
    CASE stmt.s = "While" -> [stmt EXCEPT !.body = SelectSeq(stmt.body, IsDirect)]
      [] stmt.s \in {"If", "FuncDef"} -> [stmt EXCEPT !.body = Pruned(stmt.body)]
      [] OTHER -> stmt
Pruned(stmts) == [k \in 1..Len(stmts) |-> PrunedStmt(stmts[k])]

\* a loop with a statement in its body that is neither an assignment nor an
\* out statement
HasNested(stmt) ==
    stmt.s = "While" /\ \E k \in 1..Len(stmt.body) : ~IsDirect(stmt.body[k])

\* two programs with the same code: at top level and for every function
SameCode(p, q) ==
    /\ p.instructions = q.instructions
    /\ DOMAIN p.functions = DOMAIN q.functions
    /\ \A f \in DOMAIN p.functions : p.functions[f].code = q.functions[f].code
    /\ DOMAIN p.compiled_functions = DOMAIN q.compiled_functions
    /\ \A f \in DOMAIN p.compiled_functions :
          p.compiled_functions[f].instructions = q.compiled_functions[f].instructions

\* C34: the compilation of a while loop emits instructions for the
\* assignments and the out statements directly in its body and for nothing
\* else: the compiled program is the one of the same program with every if,
\* while, return and def statement taken out of the loop bodies, and the run
\* of it prints what the direct statements print, without an error or a
\* warning.
C34_LoopBodyCompilesAssignAndOutOnly ==
    /\ phase \in {"running", "done"} => SameCode(program, compile_to_bytecode(Pruned(ast)))
    /\ \A nested \in NestedInLoop :
          /\ (tokens = SrcNestedLoop(nested) /\ Ended) =>
                (phase = "done" /\ output = << <<"9">> >>
                    /\ warnings = <<>> /\ stderr = <<>>)
          /\ (tokens = SrcOutThenNested(nested) /\ Ended) =>
                (phase = "done" /\ output = << <<"0">>, <<"1">>, <<"9">> >>
                    /\ warnings = <<>> /\ stderr = <<>>)

\* a loop with an if statement in its body has been compiled and run: the
\* loop went round twice and the if statement printed nothing
C34_Witness ==
    /\ tokens = SrcOutThenNested(NestedIf)
    /\ phase = "done"
    /\ \E k \in 1..Len(Main) : HasNested(Main[k])
    /\ output = << <<"0">>, <<"1">>, <<"9">> >>


\* the instruction about to run reads a variable
ReadsVariable == AtInstr /\ CurInstr.op \in {"LoadVar", "LoadReg"}

\* C35: in the run of the bytecode of a program the semantic analysis
\* accepted, every LoadVar and every LoadReg finds its variable bound in the
\* variables of the running activation: the fallback to zero is never taken.
C35_LoadsFindTheirVariable ==
    ReadsVariable => CurInstr.name \in DOMAIN Cur.variables


\* the comparison `op` of the two operands yields 1 in the virtual machine,
\* and folds to 1
Yields(op) == ApplyBinOp(op, calc.a, calc.b) = Ok(One64)
FoldsTo1(op) == ConstBinOp(op, Ok(calc.a), Ok(calc.b)) = Ok(One64)

\* C36: equality agrees with the order. The Eq instruction yields 1 exactly
\* when Le and Ge of the same operands both yield 1, and so does an `==`
\* that is folded at compile time: 5 held as I8 equals 5 held as I16.
C36_EqAgreesWithOrder ==
    /\ calc.op = "Eq" => ((calc.r = Ok(One64)) <=> (Yields("Le") /\ Yields("Ge")))
    /\ calc.op = "FoldedEq" => ((calc.r = Ok(One64)) <=> (FoldsTo1("Le") /\ FoldsTo1("Ge")))

\* the Eq arm has compared one number held in two widths and yielded 0
C36_UnequalWidths ==
    /\ calc.op = "Eq"
    /\ get_type(calc.a) # get_type(calc.b)
    /\ calc.a.v = calc.b.v
    /\ calc.r = Ok(Zero64)


\* C37: after compile_to_bytecode the two function tables of the program,
\* `functions` and `compiled_functions`, hold the same names, and for every
\* name the same parameters and the same instructions.
C37_FunctionTablesAgree ==
    phase \in {"running", "done"} =>
        /\ DOMAIN program.functions = DOMAIN program.compiled_functions
        /\ \A f \in DOMAIN program.functions :
              /\ program.functions[f].params = program.compiled_functions[f].params
              /\ program.functions[f].code = program.compiled_functions[f].instructions


\* the position after the turn of the top-level loop, and of a body loop,
\* that starts at position p
TopTurn(p) ==
    AfterTurn(tokens, TokAt(tokens, p).k = "Def",
              parse_stmt(tokens, scan_function_locations(tokens), p))
BodyTurn(p) ==
    IF TokAt(tokens, p).k = "End" THEN p + 1
    ELSE AfterBodyTurn(tokens, parse_stmt(tokens, scan_function_locations(tokens), p))

\* a statement with a body starts at p and is read without an error
ReadsBlock(r) == r.ok /\ r.node.s \in {"FuncDef", "If", "While"}
NoEndFrom(p) == \A q \in p..(Len(tokens) - 1) : TokAt(tokens, q).k # "End"

\* at every position of the input, a turn of the top-level loop, of a body
\* loop and of the pre-scan ends further on; a statement with a body that no
\* End closes ends at the end of the input
ParseProgress ==
    \A p \in 0..(Len(tokens) - 1) :
        /\ TopTurn(p) > p
        /\ BodyTurn(p) > p
        /\ AfterScanTurn(tokens, p) > p
        /\ (NoEndFrom(p) /\ ReadsBlock(parse_stmt(tokens, scan_function_locations(tokens), p)))
              => parse_stmt(tokens, scan_function_locations(tokens), p).pos = Len(tokens)

\* a turn of parse_program leaves the parser further on, and the loop ends
\* with Ok(Program) once the position is at or past the end of the input
TurnAdvances ==
    /\ phase' = "lexed" => parser_pos' > parser_pos
    /\ phase' # "lexed" => (phase' = "parsed" /\ parser_pos >= Len(tokens))

\* while the loop runs the position is at most one past the end of the input
\* (the skip after a Def that fails at the end), so the turns are at most
\* Len(tokens) + 1; the parser never ends in an error or a panic
ParseBounded ==
    /\ phase \in {"lexed", "parsed"}
    /\ parser_pos <= Len(tokens) + 1
    /\ (phase = "lexed" /\ parser_pos < Len(tokens)) => TopTurn(parser_pos) > parser_pos

\* C38: parse terminates on every finite token sequence and returns a
\* Program: every turn of its loops (the top-level loop, the body loop of a
\* def, an if and a while, the pre-scan) consumes at least one token, and a
\* body with no closing `end` ends at the end of the input.
C38_ParseTerminates ==
    /\ []ParseProgress
    /\ []ParseBounded
    /\ [][TurnAdvances]_vars

\* the parser has returned a Program for an input with three bodies left
\* open, each inside the one before
C38_Witness ==
    /\ tokens = InOpenBodies
    /\ phase = "parsed"
    /\ Len(ast) = 1
    /\ ast[1].s = "FuncDef"
    /\ ast[1].body[1].s = "If"
    /\ ast[1].body[1].body[1].s = "While"
    /\ ast[1].body[1].body[1].body = <<Assign("f", N1)>>

\* the parser has returned after it skipped tokens no statement starts with
C38_WitnessSkipped ==
    /\ tokens = InStray
    /\ phase = "parsed"
    /\ Len(warnings) > 0


\* the source `200i8`
Src200i8 == <<"2", "0", "0", "i", "8">>

\* C39: tokenize returns the token list or an error value for every input
\* and never aborts the process; a width-suffixed literal whose digits do
\* not fit the width, such as `200i8`, yields an error.
C39_TokenizeNeverAborts ==
    /\ phase # "aborted"
    /\ (source = Src200i8 /\ phase # "source") =>
          (phase = "failed" /\ result.err # NoText)


\* how often a key stands in the recency queue
Occurrences(key) == Len(SelectSeq(lru_cache.lru, LAMBDA k : k = key))

\* C40: an LRUCache of capacity c >= 1 never holds more than c entries,
\* after any sequence of get, put, remove and clear (a put of a key that is
\* already stored included), and its recency queue holds every stored key
\* exactly once.
C40_CacheWithinCapacity ==
    /\ Cardinality(DOMAIN lru_cache.cache) <= lru_cache.capacity
    /\ \A key \in DOMAIN lru_cache.cache : Occurrences(key) = 1

====
